---------------------------- MODULE Spec2Model ----------------------------
(***************************************************************************)
(* The review pipeline of src/src/services/api.ts: parseReviewResponse and *)
(* the helpers it calls (isNoiseItem, extractParts, isOverEngineered,      *)
(* isDuplicate).  Texts are TLA+ strings; the JavaScript string and        *)
(* regular-expression primitives the code uses are operators that compute *)
(* what the primitives compute, character by character.                    *)
(***************************************************************************)
EXTENDS Naturals, Sequences, FiniteSets, TLC

(***************************************************************************)
(* JavaScript string primitives.                                           *)
(***************************************************************************)

\* A string literal cannot hold U+0060 (the lexer rejects it), so the
\* character "~", which no text of the model uses otherwise and no rule of
\* the code treats specially, stands for the backtick.
BACKTICK == "~"

\* The characters String.prototype.trim and the regex class \s remove,
\* among those a text of the model can hold.
WhiteSpace == {" ", "\n", "\t", "\r", "\f"}

\* The characters the regex "." does not match (no s flag).
LineTerminators == {"\n", "\r"}

UpperCaseLetters == "ABCDEFGHIJKLMNOPQRSTUVWXYZ"
LowerCaseLetters == "abcdefghijklmnopqrstuvwxyz"
DecimalDigits == "0123456789"

CharAt(s, i) == SubSeq(s, i, i)

CharsOf(s) == {CharAt(s, i) : i \in 1..Len(s)}

LowerTable ==
  [c \in CharsOf(UpperCaseLetters) |->
     LET i == CHOOSE k \in 1..Len(UpperCaseLetters) : CharAt(UpperCaseLetters, k) = c
     IN  CharAt(LowerCaseLetters, i)]

toLowerChar(c) == IF c \in DOMAIN LowerTable THEN LowerTable[c] ELSE c

RECURSIVE toLowerCase(_)
toLowerCase(s) ==
  IF Len(s) = 0 THEN ""
  ELSE toLowerChar(CharAt(s, 1)) \o toLowerCase(SubSeq(s, 2, Len(s)))

RECURSIVE trimStart(_)
trimStart(s) ==
  IF Len(s) > 0 /\ CharAt(s, 1) \in WhiteSpace
  THEN trimStart(SubSeq(s, 2, Len(s)))
  ELSE s

RECURSIVE trimEnd(_)
trimEnd(s) ==
  IF Len(s) > 0 /\ CharAt(s, Len(s)) \in WhiteSpace
  THEN trimEnd(SubSeq(s, 1, Len(s) - 1))
  ELSE s

trim(s) == trimEnd(trimStart(s))

startsWith(s, p) == Len(s) >= Len(p) /\ SubSeq(s, 1, Len(p)) = p

\* s.includes(p): p occurs at some position; the empty p occurs in every s.
includes(s, p) ==
  \E i \in 1..(Len(s) + 1) :
     /\ i + Len(p) - 1 <= Len(s)
     /\ SubSeq(s, i, i + Len(p) - 1) = p

\* s.slice(0, n)
slice0(s, n) == SubSeq(s, 1, IF n < Len(s) THEN n ELSE Len(s))

\* A literal matched at the start under the i flag.
startsWithCI(s, p) ==
  Len(s) >= Len(p) /\ toLowerCase(SubSeq(s, 1, Len(p))) = toLowerCase(p)

\* A literal matched at position i under the i flag.
matchesCIAt(s, i, p) ==
  /\ i + Len(p) - 1 <= Len(s)
  /\ toLowerCase(SubSeq(s, i, i + Len(p) - 1)) = toLowerCase(p)

\* String(n) for a natural number: its decimal digits.
RECURSIVE String(_)
String(n) ==
  IF n < 10 THEN CharAt(DecimalDigits, n + 1)
  ELSE String(n \div 10) \o CharAt(DecimalDigits, (n % 10) + 1)


(***************************************************************************)
(* isNoiseItem (api.ts 76-90): one operator per test of the function.      *)
(***************************************************************************)

\* line 80: /^(None identified|No .* identified|N\/A|Here'?s an? updated)/i
\* "No .* identified" is "no " at the start, then " identified" starting
\* anywhere from the fourth character on, with no line terminator between.
reNoIssues(t) ==
  \/ startsWithCI(t, "None identified")
  \/ /\ startsWithCI(t, "No ")
     /\ \E i \in 4..Len(t) :
          /\ matchesCIAt(t, i, " identified")
          /\ \A k \in 4..(i - 1) : CharAt(t, k) \notin LineTerminators
  \/ startsWithCI(t, "N/A")
  \/ \E q \in {"", "'"} : \E n \in {"", "n"} :
        startsWithCI(t, "Here" \o q \o "s a" \o n \o " updated")

\* line 81: /^(In this updated|I added|I used|I raised|- I )/i
reNarrative(t) ==
  \E p \in {"In this updated", "I added", "I used", "I raised", "- I "} :
     startsWithCI(t, p)

\* line 82 (case-sensitive):
\* /^(def |class |import |from |return |if |for |while |try |except )/
reCodeKeyword(t) ==
  \E p \in {"def ", "class ", "import ", "from ", "return ", "if ", "for ",
            "while ", "try ", "except "} :
     startsWith(t, p)

\* line 83: /^["']/.test(trimmed) && /["']$/.test(trimmed)
reQuoted(t) ==
  /\ Len(t) > 0
  /\ CharAt(t, 1) \in {"\"", "'"}
  /\ CharAt(t, Len(t)) \in {"\"", "'"}

\* line 85: /^(Consider (adding|using)|You (could|should|might|may) (also )?consider)/i
reAdvisory(t) ==
  \/ \E g \in {"adding", "using"} : startsWithCI(t, "Consider " \o g)
  \/ \E m \in {"could", "should", "might", "may"} : \E a \in {"", "also "} :
        startsWithCI(t, "You " \o m \o " " \o a \o "consider")

\* line 86: /^(It('s| is) (a )?good practice|As a (best|general) practice|For better)/i
rePlatitude(t) ==
  \/ \E i \in {"'s", " is"} : \E a \in {"", "a "} :
        startsWithCI(t, "It" \o i \o " " \o a \o "good practice")
  \/ \E b \in {"best", "general"} : startsWithCI(t, "As a " \o b \o " practice")
  \/ startsWithCI(t, "For better")

\* line 87: /^(Add(ing)? comments|Missing comments|No comments|Comment your)/i
reCommenting(t) ==
  \E p \in {"Add comments", "Adding comments", "Missing comments",
            "No comments", "Comment your"} :
     startsWithCI(t, p)

\* line 88: /^(Use (more )?descriptive|Variable naming|Rename (the )?variable)/i
reNaming(t) ==
  \E p \in {"Use descriptive", "Use more descriptive", "Variable naming",
            "Rename variable", "Rename the variable"} :
     startsWithCI(t, p)

MIN_SIGNAL_LENGTH == 15

isNoiseItem(text) ==
  LET trimmed == trim(text) IN
  \/ startsWith(trimmed, "###")
  \/ startsWith(trimmed, BACKTICK \o BACKTICK \o BACKTICK)
  \/ reNoIssues(trimmed)
  \/ reNarrative(trimmed)
  \/ reCodeKeyword(trimmed)
  \/ reQuoted(trimmed)
  \/ Len(trimmed) < MIN_SIGNAL_LENGTH
  \/ reAdvisory(trimmed)
  \/ rePlatitude(trimmed)
  \/ reCommenting(trimmed)
  \/ reNaming(trimmed)

(***************************************************************************)
(* The helpers of isDuplicate (api.ts 94-101).                             *)
(***************************************************************************)

MAX_ISSUES == 5

IsAlnum(c) == c \in CharsOf(LowerCaseLetters) \cup CharsOf(DecimalDigits)

\* s.replace(/[^a-z0-9]/g, "")
RECURSIVE stripNonAlnum(_)
stripNonAlnum(s) ==
  IF Len(s) = 0 THEN ""
  ELSE (IF IsAlnum(CharAt(s, 1)) THEN CharAt(s, 1) ELSE "")
         \o stripNonAlnum(SubSeq(s, 2, Len(s)))

\* Mutant of normalize: the replace left out, the title only lowercased.
normalize_lowercaseOnly(s) == toLowerCase(s)

normalize(s) == stripNonAlnum(toLowerCase(s))

\* Mutant of sameOrContains: equality only, the containment tests left out.
sameOrContains_equalOnly(existNorm, norm) == existNorm = norm

\* Mutant of sameOrContains: containment tested one way only.
sameOrContains_oneWay(existNorm, norm) ==
  existNorm = norm \/ includes(existNorm, norm)

\* line 99, on two normalized titles
sameOrContains(existNorm, norm) ==
  \/ existNorm = norm
  \/ includes(existNorm, norm)
  \/ includes(norm, existNorm)


(***************************************************************************)
(* extractParts (api.ts 215-243).                                          *)
(***************************************************************************)

SentenceEnd == {".", "!", "?"}

FALLBACK_SUGGESTION ==
  "Consider refactoring this part of the code to follow best practices."

TITLE_MAX == 80
TITLE_KEEP == 77

\* Up to n leading "*" removed: the \*?\*? of line 220.
RECURSIVE dropStars(_, _)
dropStars(s, n) ==
  IF n > 0 /\ Len(s) > 0 /\ CharAt(s, 1) = "*"
  THEN dropStars(SubSeq(s, 2, Len(s)), n - 1)
  ELSE s

\* line 191: item.replace(/^[-*]\s*/, "")
stripListMarker(s) ==
  IF Len(s) > 0 /\ CharAt(s, 1) \in {"-", "*"}
  THEN trimStart(SubSeq(s, 2, Len(s)))
  ELSE s

\* line 220: text.replace(/^[-*]\s*\*?\*?/, "")
stripMarkerAndEmphasis(s) ==
  IF Len(s) > 0 /\ CharAt(s, 1) \in {"-", "*"}
  THEN dropStars(trimStart(SubSeq(s, 2, Len(s))), 2)
  ELSE s

\* The position of the first of . ! ? in s, 0 when there is none.
firstSentenceEnd(s) ==
  IF \E i \in 1..Len(s) : CharAt(s, i) \in SentenceEnd
  THEN CHOOSE i \in 1..Len(s) :
         /\ CharAt(s, i) \in SentenceEnd
         /\ \A k \in 1..(i - 1) : CharAt(s, k) \notin SentenceEnd
  ELSE 0

\* Mutant of sentenceMatch: the first group without the sentence end.
sentenceMatch_withoutEnd(cleaned) ==
  LET e == firstSentenceEnd(cleaned) IN
  IF e >= 2
  THEN [matched |-> TRUE,
        g1 |-> SubSeq(cleaned, 1, e - 1),
        g2 |-> trimStart(SubSeq(cleaned, e + 1, Len(cleaned)))]
  ELSE [matched |-> FALSE, g1 |-> "", g2 |-> ""]

\* Mutant of sentenceMatch: [^.!?]* in place of [^.!?]+, a sentence end
\* matched in the first position too.
sentenceMatch_anyPosition(cleaned) ==
  LET e == firstSentenceEnd(cleaned) IN
  IF e >= 1
  THEN [matched |-> TRUE,
        g1 |-> SubSeq(cleaned, 1, e),
        g2 |-> trimStart(SubSeq(cleaned, e + 1, Len(cleaned)))]
  ELSE [matched |-> FALSE, g1 |-> "", g2 |-> ""]

\* line 222: cleaned.match(/^([^.!?]+[.!?])\s*(.*)$/s).  The first group is
\* one or more characters other than . ! ? followed by one of them, so the
\* regex matches exactly when the first . ! ? is not the first character.
sentenceMatch(cleaned) ==
  LET e == firstSentenceEnd(cleaned) IN
  IF e >= 2
  THEN [matched |-> TRUE,
        g1 |-> SubSeq(cleaned, 1, e),
        g2 |-> trimStart(SubSeq(cleaned, e + 1, Len(cleaned)))]
  ELSE [matched |-> FALSE, g1 |-> "", g2 |-> ""]

\* Mutant of truncateTitle: the test written with >=.
truncateTitle_atLimit(title) ==
  IF Len(title) >= TITLE_MAX THEN slice0(title, TITLE_KEEP) \o "..." ELSE title

\* lines 234-236
truncateTitle(title) ==
  IF Len(title) > TITLE_MAX THEN slice0(title, TITLE_KEEP) \o "..." ELSE title

extractParts(text) ==
  LET cleaned == trim(stripMarkerAndEmphasis(text))
      m       == sentenceMatch(cleaned)
      title   == IF m.matched THEN trim(m.g1) ELSE slice0(cleaned, TITLE_MAX)
      rest    == IF m.matched THEN trim(m.g2) ELSE ""
  IN  [title       |-> truncateTitle(title),
       description |-> cleaned,
       suggestion  |-> IF rest # "" THEN rest ELSE FALLBACK_SUGGESTION]

(***************************************************************************)
(* isOverEngineered (api.ts 117-141).                                      *)
(***************************************************************************)

\* lines 122-131: terms looked for in the title and in the suggestion
BothFieldTerms ==
  {"refactor", "restructure", "complex", "abstract", "comment", "document"}

\* lines 137-138: terms looked for in the title only
TitleOnlyTerms == {"time complexity", "space complexity", "big o", "o(n)"}

VAGUE_SUGGESTION_LENGTH == 30

\* Mutant of isOverEngineered: every test made on the title only.
isOverEngineered_titleOnly(title, suggestion) ==
  LET titleLower == toLowerCase(title) IN
  \/ \E w \in BothFieldTerms \cup TitleOnlyTerms : includes(titleLower, w)
  \/ /\ startsWith(titleLower, "consider")
     /\ Len(suggestion) < VAGUE_SUGGESTION_LENGTH

isOverEngineered(title, suggestion) ==
  LET titleLower      == toLowerCase(title)
      suggestionLower == toLowerCase(suggestion)
  IN  \/ \E w \in BothFieldTerms :
            includes(titleLower, w) \/ includes(suggestionLower, w)
      \/ /\ startsWith(titleLower, "consider")
         /\ Len(suggestionLower) < VAGUE_SUGGESTION_LENGTH
      \/ \E w \in TitleOnlyTerms : includes(titleLower, w)


(***************************************************************************)
(* The raw statements the model draws its inputs from.                     *)
(***************************************************************************)

\* Seven statements with a first sentence, a remediation after it and
\* pairwise different titles.
sNullDeref ==
  "Null pointer dereference when input is empty. Add a guard clause before dereferencing."
sOffByOne ==
  "Off-by-one error in loop bound. Use < instead of <= in the loop condition."
sOverflow ==
  "Buffer overflow in copy routine. Check the length before copying."
sRace ==
  "Race condition on shared counter. Guard the counter with a mutex."
sMalloc ==
  "Unchecked return value of malloc. Test the pointer for NULL."
sDivZero ==
  "Division by zero when count is 0. Return early for empty input."
sLeak ==
  "Resource leak on early return. Close the file in a finally block."

\* Two statements whose titles both contain the title of sNullShort.
sNullShort == "Null pointer dereference. Check the pointer before use."
sNullParser ==
  "Null pointer dereference in parser loop. Validate the node before use."

\* The same statement as sOverflow behind a list marker.
sOverflowListed ==
  "- Buffer overflow in copy routine. Check the length before copying."

\* Statements of one sentence: nothing follows the sentence end.
sSqlFirst == "SQL injection in query builder."
sSqlSecond == "SQL Injection risk in the query-builder function."

\* A statement without any sentence end.
sNoBoundary == "Missing bounds check on the index"

\* Generic advice, with and without emphasis markers in front.
sCommentAdvice == "Consider adding more comments to this function for clarity."
sEmphasisAdvice ==
  "**Consider adding a null check here. Dereferencing input without a guard crashes."

\* A statement the policy rejects on a term of its title.
sComplex == "Function is too complex to test. Split it into smaller helpers."

\* Statements that are empty once cleaned, or too short.
sEmpty == ""
sMarkerOnly == "- "
sShort == "Looks fine."

\* Statements whose first sentence has exactly 80, exactly 81 and 97
\* characters.
sTitle80 ==
  "Timeout value is read from the environment without checking that it is a number. Parse it and fall back to a default."
sTitle81 ==
  "Loop index can run past the end of the array when the caller passes a short list. Stop the loop at the length of the list."
sLongTitle ==
  "Password is written to the log file in plain text whenever the login request fails on the server. Mask the password before logging."

\* A statement the policy rejects on a term of its suggestion, with the
\* title of sOverflow.
sOverflowRewrite ==
  "Buffer overflow in copy routine. Refactor the routine around a safe copy."

\* A statement whose title holds no letter and no digit.
sSymbols == "$$$ --- $$$ --- $$$! Validate the amount before charging it."

SevenValid ==
  <<sNullDeref, sOffByOne, sOverflow, sRace, sMalloc, sDivZero, sLeak>>

Shadowed ==
  <<sNullShort, sNullDeref, sNullParser, sOffByOne, sOverflow, sRace>>

Mixed ==
  <<sCommentAdvice, sOverflow, sEmpty, sOverflowListed, sComplex, sSqlFirst,
    sOffByOne, sShort, sRace, sMalloc, sDivZero>>

Lengths == <<sTitle80, sTitle81, sLongTitle, sOverflowListed>>

Retried == <<sOverflowRewrite, sOverflow, sRace>>

SymbolsFirst == <<sSymbols, sOverflow, sRace, sMalloc>>

SymbolsLater == <<sOverflow, sSymbols, sRace>>

MasterLists ==
  {SevenValid, Shadowed, Mixed, Lengths, Retried, SymbolsFirst, SymbolsLater}

\* The statements short inputs are made of.
CoreStatements ==
  {sNullDeref, sNullShort, sOverflow, sOverflowListed, sSqlFirst, sSqlSecond,
   sNoBoundary, sCommentAdvice, sEmphasisAdvice, sComplex, sMarkerOnly}

\* The longest input made of arbitrary core statements.
MaxTotal == 2

(***************************************************************************)
(* parseReviewResponse (api.ts 103-213).                                   *)
(***************************************************************************)

\* Mutant of severityOrder: the buckets visited from Low to Critical.
severityOrder_reversed == <<"Low", "Medium", "High", "Critical">>

\* line 114
severityOrder == <<"Critical", "High", "Medium", "Low">>

\* Mutant of severityMap: the keys written in lower case, so that no
\* bucket key is found and every severity falls back to "low".
severityMap_lowercaseKeys ==
  [critical |-> "critical", high |-> "high", medium |-> "medium", low |-> "low"]

\* lines 107-112
severityMap ==
  [Critical |-> "critical", High |-> "high", Medium |-> "medium", Low |-> "low"]

\* The review whose buckets are the four consecutive pieces of seq ending
\* at c1, c2, c3 and Len(seq).
SplitAt(seq, c1, c2, c3) ==
  [Critical |-> SubSeq(seq, 1, c1),
   High     |-> SubSeq(seq, c1 + 1, c2),
   Medium   |-> SubSeq(seq, c2 + 1, c3),
   Low      |-> SubSeq(seq, c3 + 1, Len(seq))]

Splits(seq) ==
  {SplitAt(seq, c1, c2, c3) :
     <<c1, c2, c3>> \in {t \in (0..Len(seq)) \X (0..Len(seq)) \X (0..Len(seq)) :
                           t[1] <= t[2] /\ t[2] <= t[3]}}

ShortSeqs == UNION {[1..n -> CoreStatements] : n \in 0..MaxTotal}

EmptyReview == [Critical |-> <<>>, High |-> <<>>, Medium |-> <<>>, Low |-> <<>>]

\* The review r without the keys of absent.
Without(r, absent) == [k \in DOMAIN r \ absent |-> r[k]]

\* The reviews that differ from r in lacking keys of buckets r holds empty.
Absences(r) ==
  {Without(r, absent) :
     absent \in SUBSET {k \in DOMAIN r : r[k] = <<>>} \ {{}}}

\* Reviews some of whose keys are absent.
AbsentInputs == UNION {Absences(r) : r \in Splits(Lengths) \cup {EmptyReview}}

\* The inputs of the model: every way to put a master list into the four
\* buckets, every review of at most MaxTotal core statements, and the
\* reviews with absent keys.
Inputs ==
  UNION {Splits(seq) : seq \in MasterLists}
    \cup UNION {Splits(seq) : seq \in ShortSeqs}
    \cup AbsentInputs

\* Every statement an input of the model can hold.
Statements ==
  CoreStatements \cup UNION {{m[i] : i \in 1..Len(m)} : m \in MasterLists}

\* line 191
cleanItem(item) == trim(stripListMarker(item))

\* The pure functions of the pipeline are tabulated once over the statements
\* of the model (a constant is evaluated once, an operator at each use);
\* outside the tables the functions themselves are applied.
CleanedStatements == {cleanItem(s) : s \in Statements}

NoiseTable == [c \in CleanedStatements |-> isNoiseItem(c)]

PartsTable == [c \in CleanedStatements |-> extractParts(c)]

PolicyTable ==
  [c \in CleanedStatements |->
     isOverEngineered(PartsTable[c].title, PartsTable[c].suggestion)]

NormTable ==
  [t \in {PartsTable[c].title : c \in CleanedStatements} |-> normalize(t)]

noiseOf(c) == IF c \in DOMAIN NoiseTable THEN NoiseTable[c] ELSE isNoiseItem(c)

partsOf(c) == IF c \in DOMAIN PartsTable THEN PartsTable[c] ELSE extractParts(c)

policyOf(c, parts) ==
  IF c \in DOMAIN PolicyTable
  THEN PolicyTable[c]
  ELSE isOverEngineered(parts.title, parts.suggestion)

normOf(t) == IF t \in DOMAIN NormTable THEN NormTable[t] ELSE normalize(t)

\* Mutant of isDuplicate: every in place of some.
isDuplicate_every(existing, newTitle) ==
  LET norm == normOf(newTitle) IN
  \A k \in 1..Len(existing) :
     sameOrContains(normOf(existing[k].title), norm)

\* lines 94-101; normalize is applied through its table
isDuplicate(existing, newTitle) ==
  LET norm == normOf(newTitle) IN
  \E k \in 1..Len(existing) :
     sameOrContains(normOf(existing[k].title), norm)

(***************************************************************************)
(* AuthProvider (AuthContext.tsx 34-113): the values of its state.         *)
(***************************************************************************)

\* JavaScript null
Null == "null"

\* The accounts of the model, by uid, with the provider each signs in by.
PasswordAccounts == {"alice"}

NewAccounts == {"carol"}

GithubAccounts == {"bob"}

ProviderOf ==
  [alice |-> "password", carol |-> "password", bob |-> "github.com"]

\* The access tokens GitHub hands out.
Tokens == {"gho_1", "gho_2"}

\* AuthContext.tsx line 71
CORRECT_CODE == "123456"

Codes == {CORRECT_CODE, "000000"}

NoHandler == [fn |-> "none", arg |-> Null, threw |-> FALSE]

\* AuthContext.tsx lines 35-40, with Firebase signed out and the storage
\* empty: the provider as long as nothing has happened
AuthUnmounted ==
  [user        |-> Null,
   loading     |-> TRUE,
   pendingUser |-> Null,
   githubToken |-> Null,
   storage     |-> Null,
   currentUser |-> Null,
   notify      |-> <<>>,
   pending     |-> {},
   last        |-> NoHandler]

(***************************************************************************)
(* Index (Index.tsx 14-113): the values of its state.                      *)
(***************************************************************************)

NoRequest == [code |-> "", stage |-> "none"]

\* Index.tsx lines 15-22
PageUnmounted ==
  [code           |-> "",
   isReviewing    |-> FALSE,
   isRewriting    |-> FALSE,
   reviewIssues   |-> <<>>,
   reviewAttempted |-> FALSE,
   showComparison |-> FALSE,
   rewrittenCode  |-> "",
   review         |-> NoRequest,
   rewrite        |-> NoRequest,
   toast          |-> "none"]

VARIABLES
  review,      \* the argument of parseReviewResponse
  issues,      \* line 104
  idCounter,   \* line 105
  sev,         \* the position of the outer loop in severityOrder
  idx,         \* the position of the inner loop in items
  pc,          \* "inner": at the head of the inner loop; "outer": at line 208;
               \* "return": at line 212; "done": returned
  evaluated,   \* the cleaned statements the loop body has examined so far
               \* (line 191 onwards), in order
  call         \* the pure function applied last on its own, with its
               \* arguments and results; NoCall in a run of the pipeline

VARIABLES
  auth,        \* the state of AuthProvider (AuthContext.tsx 35-40), of the
               \* session storage and of Firebase Auth as the provider sees it
  page         \* the state of the Index page (Index.tsx 15-22), with the
               \* requests of its handlers that are under way

\* The state of the React components and of what they talk to.
componentVars == <<auth, page>>

\* The state of a run of parseReviewResponse.
pipelineVars == <<review, issues, idCounter, sev, idx, pc, evaluated, call>>

vars == <<review, issues, idCounter, sev, idx, pc, evaluated, call, auth, page>>

NoCall == [fn |-> "none"]

\* Mutant of itemsOf: an absent key read as the Low bucket.
itemsOf_absentReadsLow(r, severity) ==
  IF severity \in DOMAIN r THEN r[severity]
  ELSE IF "Low" \in DOMAIN r THEN r["Low"] ELSE <<>>

\* line 187: review[severity] || []
itemsOf(r, severity) ==
  IF severity \in DOMAIN r THEN r[severity] ELSE <<>>

items == itemsOf(review, severityOrder[sev])

\* Mutants of capReachedInner: the test written with > (one issue too
\* many), and the test left out (the inner loop never breaks).
capReachedInner_offByOne(iss) == Len(iss) > MAX_ISSUES

capReachedInner_never(iss) == FALSE

\* line 189: the test at the head of the inner loop
capReachedInner(iss) == Len(iss) >= MAX_ISSUES

\* line 208: the test after the inner loop
capReachedOuter(iss) == Len(iss) >= MAX_ISSUES

\* line 192
skippedEarly(cleaned) == cleaned = "" \/ noiseOf(cleaned)

\* lines 197-198
skippedLate(iss, cleaned, parts) ==
  \/ policyOf(cleaned, parts)
  \/ isDuplicate(iss, parts.title)

\* Mutant of newIssue: the counter incremented before it is read.
newIssue_preIncrement(counter, severity, parts) ==
  [id          |-> String(counter + 1),
   severity    |-> IF severity \in DOMAIN severityMap THEN severityMap[severity] ELSE "low",
   title       |-> parts.title,
   description |-> parts.description,
   suggestion  |-> parts.suggestion]

\* lines 200-206, with the value of idCounter before the increment
newIssue(counter, severity, parts) ==
  [id          |-> String(counter),
   severity    |-> IF severity \in DOMAIN severityMap THEN severityMap[severity] ELSE "low",
   title       |-> parts.title,
   description |-> parts.description,
   suggestion  |-> parts.suggestion]

Init ==
  /\ review \in Inputs
  /\ issues = <<>>
  /\ idCounter = 1
  /\ sev = 1
  /\ idx = 1
  /\ pc = "inner"
  /\ evaluated = <<>>
  /\ call = NoCall
  /\ auth = AuthUnmounted
  /\ page = PageUnmounted

\* line 189: the cap is reached with items left in the bucket
BreakInner ==
  /\ pc = "inner"
  /\ idx <= Len(items)
  /\ capReachedInner(issues)
  /\ pc' = "outer"
  /\ UNCHANGED <<componentVars, call, review, issues, idCounter, sev, idx, evaluated>>

\* line 192: the cleaned item is empty or noise
SkipNoise ==
  /\ pc = "inner"
  /\ idx <= Len(items)
  /\ ~capReachedInner(issues)
  /\ LET cleaned == cleanItem(items[idx]) IN
       /\ skippedEarly(cleaned)
       /\ evaluated' = Append(evaluated, cleaned)
  /\ idx' = idx + 1
  /\ UNCHANGED <<componentVars, call, review, issues, idCounter, sev, pc>>

\* Mutant of SkipFiltered: the id taken from the counter before the two
\* tests, so that a rejected statement uses one up.
SkipFiltered_consumesId ==
  /\ pc = "inner"
  /\ idx <= Len(items)
  /\ ~capReachedInner(issues)
  /\ LET cleaned == cleanItem(items[idx]) IN
       /\ ~skippedEarly(cleaned)
       /\ skippedLate(issues, cleaned, partsOf(cleaned))
       /\ evaluated' = Append(evaluated, cleaned)
  /\ idx' = idx + 1
  /\ idCounter' = idCounter + 1
  /\ UNCHANGED <<componentVars, call, review, issues, sev, pc>>

\* lines 197-198: the extracted parts are over-engineered or a duplicate
SkipFiltered ==
  /\ pc = "inner"
  /\ idx <= Len(items)
  /\ ~capReachedInner(issues)
  /\ LET cleaned == cleanItem(items[idx]) IN
       /\ ~skippedEarly(cleaned)
       /\ skippedLate(issues, cleaned, partsOf(cleaned))
       /\ evaluated' = Append(evaluated, cleaned)
  /\ idx' = idx + 1
  /\ UNCHANGED <<componentVars, call, review, issues, idCounter, sev, pc>>

\* lines 200-206
PushIssue ==
  /\ pc = "inner"
  /\ idx <= Len(items)
  /\ ~capReachedInner(issues)
  /\ LET cleaned == cleanItem(items[idx])
         parts   == partsOf(cleaned)
     IN  /\ ~skippedEarly(cleaned)
         /\ ~skippedLate(issues, cleaned, parts)
         /\ issues' = Append(issues, newIssue(idCounter, severityOrder[sev], parts))
         /\ evaluated' = Append(evaluated, cleaned)
  /\ idCounter' = idCounter + 1
  /\ idx' = idx + 1
  /\ UNCHANGED <<componentVars, call, review, sev, pc>>

\* the inner loop has no item left
EndInner ==
  /\ pc = "inner"
  /\ idx > Len(items)
  /\ pc' = "outer"
  /\ UNCHANGED <<componentVars, call, review, issues, idCounter, sev, idx, evaluated>>

\* line 208: the cap is reached
BreakOuter ==
  /\ pc = "outer"
  /\ capReachedOuter(issues)
  /\ pc' = "return"
  /\ UNCHANGED <<componentVars, call, review, issues, idCounter, sev, idx, evaluated>>

\* line 186: the next severity
NextSeverity ==
  /\ pc = "outer"
  /\ ~capReachedOuter(issues)
  /\ sev < Len(severityOrder)
  /\ sev' = sev + 1
  /\ idx' = 1
  /\ pc' = "inner"
  /\ UNCHANGED <<componentVars, call, review, issues, idCounter, evaluated>>

\* line 186: no severity is left
EndOuter ==
  /\ pc = "outer"
  /\ ~capReachedOuter(issues)
  /\ sev = Len(severityOrder)
  /\ pc' = "return"
  /\ UNCHANGED <<componentVars, call, review, issues, idCounter, sev, idx, evaluated>>

\* line 212
Return ==
  /\ pc = "return"
  /\ pc' = "done"
  /\ UNCHANGED <<componentVars, call, review, issues, idCounter, sev, idx, evaluated>>

Next ==
  \/ BreakInner
  \/ SkipNoise
  \/ SkipFiltered
  \/ PushIssue
  \/ EndInner
  \/ BreakOuter
  \/ NextSeverity
  \/ EndOuter
  \/ Return

Spec == Init /\ [][Next]_vars

(***************************************************************************)
(* parseReviewResponse as a function of its argument: the two loops of     *)
(* lines 186-209 as one pass over the (severity, item) pairs in the order  *)
(* the loops visit them.                                                   *)
(***************************************************************************)

RECURSIVE PairsFrom(_, _)
PairsFrom(r, s) ==
  IF s > Len(severityOrder) THEN <<>>
  ELSE LET its == itemsOf(r, severityOrder[s]) IN
       [i \in 1..Len(its) |-> <<severityOrder[s], its[i]>>] \o PairsFrom(r, s + 1)

Pairs(r) == PairsFrom(r, 1)

\* lines 188-207 from the pair at position p on, with the issues and the
\* counter accumulated so far; both breaks (189, 208) end the pass
RECURSIVE parseFrom(_, _, _, _)
parseFrom(pairs, p, iss, counter) ==
  IF p > Len(pairs) \/ capReachedInner(iss) THEN iss
  ELSE LET cleaned == cleanItem(pairs[p][2])
           parts   == partsOf(cleaned)
       IN  IF skippedEarly(cleaned) THEN parseFrom(pairs, p + 1, iss, counter)
           ELSE IF skippedLate(iss, cleaned, parts)
           THEN parseFrom(pairs, p + 1, iss, counter)
           ELSE parseFrom(pairs, p + 1,
                          Append(iss, newIssue(counter, pairs[p][1], parts)),
                          counter + 1)

\* lines 103-213
parseReviewResponse(r) == parseFrom(Pairs(r), 1, <<>>, 1)

(***************************************************************************)
(* ReviewResults (ReviewResults.tsx 74-106): the issues returned by        *)
(* parseReviewResponse are sorted by severity and counted for display.     *)
(***************************************************************************)

\* ReviewResults.tsx line 96
displayOrder == [critical |-> 0, high |-> 1, medium |-> 2, low |-> 3]

\* Mutant of compareSeverity: the operands of the subtraction exchanged.
compareSeverity_descending(a, b) ==
  displayOrder[b.severity] - displayOrder[a.severity]

\* ReviewResults.tsx line 97: the comparator of the sort
compareSeverity(a, b) == displayOrder[a.severity] - displayOrder[b.severity]

\* x put into the sorted sequence behind every element it does not
\* come before: Array.prototype.sort is stable.
RECURSIVE insertSorted(_, _)
insertSorted(sorted, x) ==
  IF sorted = <<>> THEN <<x>>
  ELSE IF compareSeverity(x, Head(sorted)) < 0 THEN <<x>> \o sorted
  ELSE <<Head(sorted)>> \o insertSorted(Tail(sorted), x)

\* ReviewResults.tsx lines 95-98: [...issues].sort(...)
RECURSIVE sortBySeverityFrom(_, _, _)
sortBySeverityFrom(iss, k, sorted) ==
  IF k > Len(iss) THEN sorted
  ELSE sortBySeverityFrom(iss, k + 1, insertSorted(sorted, iss[k]))

sortedIssuesOf(iss) == sortBySeverityFrom(iss, 1, <<>>)

\* ReviewResults.tsx lines 100-106: issues.reduce(...)
severityCountsOf(iss) ==
  [v \in DOMAIN displayOrder |->
     Cardinality({k \in 1..Len(iss) : iss[k].severity = v})]

\* ReviewResults.tsx lines 74, 95-106: the returned issues are rendered;
\* without issues the component returns before the sort
Render ==
  /\ pc = "done"
  /\ call = NoCall
  /\ call' = [fn             |-> "ReviewResults",
              view           |-> IF Len(issues) = 0 THEN "empty" ELSE "list",
              sortedIssues   |-> sortedIssuesOf(issues),
              severityCounts |-> severityCountsOf(issues)]
  /\ UNCHANGED <<componentVars, review, issues, idCounter, sev, idx, pc, evaluated>>

NextRender ==
  \/ Next
  \/ Render

SpecRender == Init /\ [][NextRender]_vars

(***************************************************************************)
(* parseReviewResponse called again and again: issues and idCounter are    *)
(* locals of the function (lines 104-105), made anew by each call.         *)
(***************************************************************************)

\* Mutant of freshCounter: the counter kept from the call before, as a
\* counter at module level would be.
freshCounter_kept(old) == old

\* line 105: let idCounter = 1
freshCounter(old) == 1

\* The arguments of the calls.
CallInputs ==
  {SplitAt(SevenValid, 7, 7, 7), SplitAt(Mixed, 3, 6, 9),
   SplitAt(Lengths, 1, 2, 3), Without(SplitAt(Lengths, 0, 2, 2), {"Critical", "Low"}),
   EmptyReview}

InitCalls ==
  /\ review \in CallInputs
  /\ issues = <<>>
  /\ idCounter = 1
  /\ sev = 1
  /\ idx = 1
  /\ pc = "inner"
  /\ evaluated = <<>>
  /\ call = [fn |-> "parseReviewResponse", returned |-> {}]
  /\ auth = AuthUnmounted
  /\ page = PageUnmounted

\* lines 103-105: the function is called once more; call.returned keeps
\* the argument and the result of every call that has returned
CallAgain ==
  /\ pc = "done"
  /\ \E r \in CallInputs : review' = r
  /\ call' = [call EXCEPT !.returned = @ \cup {<<review, issues>>}]
  /\ issues' = <<>>
  /\ idCounter' = freshCounter(idCounter)
  /\ sev' = 1
  /\ idx' = 1
  /\ pc' = "inner"
  /\ evaluated' = <<>>
  /\ UNCHANGED componentVars

NextCalls ==
  \/ Next
  \/ CallAgain

SpecCalls == InitCalls /\ [][NextCalls]_vars

(***************************************************************************)
(* stripCodeFences (api.ts 245-250).                                       *)
(***************************************************************************)

FENCE == BACKTICK \o BACKTICK \o BACKTICK

IsLetter(c) == c \in CharsOf(UpperCaseLetters) \cup CharsOf(LowerCaseLetters)

endsWith(s, p) ==
  Len(s) >= Len(p) /\ SubSeq(s, Len(s) - Len(p) + 1, Len(s)) = p

\* The leading run of letters removed: the [a-zA-Z]* of line 247.
RECURSIVE dropLetters(_)
dropLetters(s) ==
  IF Len(s) > 0 /\ IsLetter(CharAt(s, 1))
  THEN dropLetters(SubSeq(s, 2, Len(s)))
  ELSE s

\* Mutant of stripOpeningFence: the regex without its anchor and with the
\* g flag, every opening fence of the text removed.
RECURSIVE stripOpeningFence_global(_)
stripOpeningFence_global(s) ==
  IF s = "" THEN ""
  ELSE IF startsWith(s, FENCE)
  THEN LET r == dropLetters(SubSeq(s, Len(FENCE) + 1, Len(s))) IN
       stripOpeningFence_global(
         IF Len(r) > 0 /\ CharAt(r, 1) = "\n" THEN SubSeq(r, 2, Len(r)) ELSE r)
  ELSE SubSeq(s, 1, 1) \o stripOpeningFence_global(SubSeq(s, 2, Len(s)))

\* line 247: stripped.replace(/^```[a-zA-Z]*\n?/, "")
stripOpeningFence(s) ==
  IF startsWith(s, FENCE)
  THEN LET r == dropLetters(SubSeq(s, Len(FENCE) + 1, Len(s))) IN
       IF Len(r) > 0 /\ CharAt(r, 1) = "\n" THEN SubSeq(r, 2, Len(r)) ELSE r
  ELSE s

\* line 248: stripped.replace(/\n?```$/, "")
stripClosingFence(s) ==
  IF endsWith(s, FENCE)
  THEN LET r == SubSeq(s, 1, Len(s) - Len(FENCE)) IN
       IF Len(r) > 0 /\ CharAt(r, Len(r)) = "\n" THEN SubSeq(r, 1, Len(r) - 1) ELSE r
  ELSE s

stripCodeFences(code) == trim(stripClosingFence(stripOpeningFence(trim(code))))

(***************************************************************************)
(* The pure functions applied on their own, to arguments drawn from        *)
(* small sets.                                                             *)
(***************************************************************************)

TitleSamples ==
  {"Off-by-one error", "Off-by-one error in loop", "OFF BY ONE ERROR!",
   "Null pointer dereference on line 4", "Null pointer dereference risk",
   "SQL injection in query builder.",
   "SQL Injection risk in the query-builder function.",
   "Buffer overflow", "???", ""}

FenceTags == {"", "python", "cpp", "c++", "objective-c"}

FenceBodies == {"print(1)", "int x = 1;\nreturn x;", "  x = 1  ", "a\n\nb"}

\* line 61: the rewritten code as the model returns it, fenced
Fenced(tag, body) == FENCE \o tag \o "\n" \o body \o "\n" \o FENCE

UnfencedTexts ==
  {"print(1)", "  print(1)\n", "x = 1\ny = 2", "", "a " \o BACKTICK \o "b" \o BACKTICK}

\* Texts wrapped in two fence pairs, and texts with fences inside.
NestedFenceSamples ==
  {Fenced(outer, Fenced(inner, "print(1)")) :
     outer \in {"", "markdown", "c++"}, inner \in {"", "python"}}

InteriorFenceSamples ==
  {"Here it is:\n" \o Fenced("js", "let x = 1;") \o "\nDone.",
   "a\n" \o FENCE \o "\nb",
   Fenced("js", "let s = 1;\n" \o FENCE \o "\nlet t = 2;"),
   "Here it is:\n" \o Fenced("js", "let x = 1;"),
   FENCE, FENCE \o "\n" \o FENCE}

FenceSamples ==
  {Fenced(tag, body) : tag \in FenceTags, body \in FenceBodies}
    \cup UnfencedTexts \cup NestedFenceSamples \cup InteriorFenceSamples

\* isDuplicate([{title: a}], b), and with a and b exchanged
ApplyIsDuplicate ==
  /\ pc = "idle"
  /\ call = NoCall
  /\ \E a \in TitleSamples : \E b \in TitleSamples :
       call' = [fn      |-> "isDuplicate",
                args    |-> <<a, b>>,
                result  |-> isDuplicate(<<[title |-> a]>>, b),
                reverse |-> isDuplicate(<<[title |-> b]>>, a)]
  /\ UNCHANGED <<componentVars, review, issues, idCounter, sev, idx, pc, evaluated>>

\* stripCodeFences(text), and stripCodeFences of its result
ApplyStripCodeFences ==
  /\ pc = "idle"
  /\ call = NoCall
  /\ \E text \in FenceSamples :
       call' = [fn     |-> "stripCodeFences",
                args   |-> <<text>>,
                result |-> stripCodeFences(text),
                again  |-> stripCodeFences(stripCodeFences(text))]
  /\ UNCHANGED <<componentVars, review, issues, idCounter, sev, idx, pc, evaluated>>

PolicyTitles ==
  {"Loop scans the list twice.", "Unchecked index in loop.",
   "Refactor the parser.", "The sort makes O(n) extra passes.",
   "Big O of the scan is quadratic.", "Time complexity of the search is high.",
   "Consider caching the result.", "CONSIDER a guard on the index.",
   "Missing DOCUMENTation of the units."}

PolicySuggestions ==
  {"The lookup is O(n) per call, so cache it.",
   "The big O of this scan is linear; keep the list sorted.",
   "Check the index against the length before reading the element.",
   "Cache it.", "Restructure the module.",
   "Keep the value in a map keyed by id!!", FALLBACK_SUGGESTION}

\* isOverEngineered(title, suggestion)
ApplyIsOverEngineered ==
  /\ pc = "idle"
  /\ call = NoCall
  /\ \E title \in PolicyTitles : \E suggestion \in PolicySuggestions :
       call' = [fn     |-> "isOverEngineered",
                args   |-> <<title, suggestion>>,
                result |-> isOverEngineered(title, suggestion)]
  /\ UNCHANGED <<componentVars, review, issues, idCounter, sev, idx, pc, evaluated>>

ExtractSamples ==
  {"Unchecked index in loop. Check it against the length.",
   "- **Unchecked index!** It can pass the end.\nCheck it first.",
   "What now?   \n  Spaces around the rest.  ",
   "Ends at once.", "No boundary here at all", "", "...",
   ".NET framework version is outdated. Upgrade to a supported release.",
   "?? is applied to a value that is never null. Remove the operator.",
   "The handler reads the header and the body and the trailer and then writes them all back out again",
   sTitle80, sTitle81, sLongTitle}

\* extractParts(text)
ApplyExtractParts ==
  /\ pc = "idle"
  /\ call = NoCall
  /\ \E text \in ExtractSamples :
       call' = [fn     |-> "extractParts",
                args   |-> <<text>>,
                result |-> extractParts(text)]
  /\ UNCHANGED <<componentVars, review, issues, idCounter, sev, idx, pc, evaluated>>

NoiseSamples ==
  {"'use strict' is missing in module \"core\"",
   "\"core\" module is loaded without 'use strict'",
   "\"Trailing comma in the options object\"",
   "'Trailing comma in the options object'",
   "  \"Padded and quoted statement of the model\"  ",
   "\"quoted\" word first, then plain text",
   "Unchecked index in loop.", "Looks fine.", "",
   "### Summary of the review", "None identified", "N/A for this file",
   "No critical issues identified in this file",
   "I added a guard for the index", "def parse(self, text): pass",
   "Consider using a map for the lookup table",
   "It's a good practice to close files.",
   "Add comments to the parser module please",
   "Use descriptive names for the counters",
   FENCE \o "python\nprint(1)\n" \o FENCE}

\* isNoiseItem(text)
ApplyIsNoiseItem ==
  /\ pc = "idle"
  /\ call = NoCall
  /\ \E text \in NoiseSamples :
       call' = [fn     |-> "isNoiseItem",
                args   |-> <<text>>,
                result |-> isNoiseItem(text)]
  /\ UNCHANGED <<componentVars, review, issues, idCounter, sev, idx, pc, evaluated>>

(***************************************************************************)
(* analyzeCode (api.ts 20-74) from the response of the service on.         *)
(***************************************************************************)

\* line 66: replace(/\s+/g, ' ')
RECURSIVE collapseWhiteSpace(_)
collapseWhiteSpace(s) ==
  IF Len(s) = 0 THEN ""
  ELSE IF CharAt(s, 1) \in WhiteSpace
  THEN " " \o collapseWhiteSpace(trimStart(s))
  ELSE CharAt(s, 1) \o collapseWhiteSpace(SubSeq(s, 2, Len(s)))

\* lines 66-67
normalizeCode(s) == trim(collapseWhiteSpace(s))

\* Mutant of rewriteResult: the stripped rewritten code returned in both
\* cases.
rewriteResult_alwaysRewritten(code, rewritten_code) ==
  stripCodeFences(rewritten_code)

\* lines 61-72: what analyzeCode returns for the code of the caller and
\* the rewritten_code of the response
rewriteResult(code, rewritten_code) ==
  LET rewrittenCode == stripCodeFences(rewritten_code) IN
  IF normalizeCode(code) = normalizeCode(rewrittenCode)
  THEN code
  ELSE rewrittenCode

\* lines 51-54: the message of the error thrown on a response that is not
\* ok; detail is "" when the body has none
failureMessage(detail) == IF detail # "" THEN detail ELSE "Failed to analyze code"

\* lines 51-73: analyzeCode from the response of the service on
analyzeCode(code, task, response) ==
  IF ~response.ok
  THEN [threw |-> TRUE, task |-> task, value |-> failureMessage(response.detail)]
  ELSE IF task = "review"
  THEN [threw |-> FALSE, task |-> task, value |-> parseReviewResponse(response.data)]
  ELSE [threw |-> FALSE, task |-> task, value |-> rewriteResult(code, response.data)]

RewriteCodes == {"let  a = 1;\n", "let a = 1;", "print(1)", ""}

RewriteResponses ==
  {[ok |-> TRUE, detail |-> "", data |-> data] :
     data \in {Fenced("js", "let a = 1;"), "let a = 1;", "const a = 1;",
               Fenced("js", "let a =\n\t1;"), "leta=1;", "  "}}
    \cup {[ok |-> FALSE, detail |-> detail, data |-> "let a = 1;"] :
            detail \in {"", "Rate limit reached"}}

ReviewResponses ==
  {[ok |-> TRUE, detail |-> "", data |-> SplitAt(Lengths, 1, 2, 3)],
   [ok |-> FALSE, detail |-> "", data |-> SplitAt(Lengths, 1, 2, 3)]}

\* analyzeCode(code, language, task), the service answering with response
ApplyAnalyzeCode ==
  /\ pc = "idle"
  /\ call = NoCall
  /\ \E code \in RewriteCodes, task \in {"review", "rewrite"} :
     \E response \in IF task = "review" THEN ReviewResponses ELSE RewriteResponses :
       call' = [fn     |-> "analyzeCode",
                args   |-> <<code, task, response>>,
                result |-> analyzeCode(code, task, response)]
  /\ UNCHANGED <<componentVars, review, issues, idCounter, sev, idx, pc, evaluated>>

\* No run of the pipeline is under way.
InitFn ==
  /\ review = EmptyReview
  /\ issues = <<>>
  /\ idCounter = 1
  /\ sev = 1
  /\ idx = 1
  /\ pc = "idle"
  /\ evaluated = <<>>
  /\ call = NoCall
  /\ auth = AuthUnmounted
  /\ page = PageUnmounted

NextFn ==
  \/ ApplyIsDuplicate
  \/ ApplyStripCodeFences
  \/ ApplyIsOverEngineered
  \/ ApplyExtractParts
  \/ ApplyIsNoiseItem
  \/ ApplyAnalyzeCode

SpecFn == InitFn /\ [][NextFn]_vars

(***************************************************************************)
(* runCode (services/codeRunner.ts 65-149) and the runCode that tries      *)
(* several execution services and then runs JavaScript locally (63-220 of  *)
(* the second runner file).  The function shares no state with the rest of *)
(* the program: a call is determined by its arguments and by what the      *)
(* services answer, so it is computed from them, with the completion of    *)
(* the try block (return or throw) and the requests it makes kept          *)
(* explicit.                                                               *)
(***************************************************************************)

\* codeRunner.ts lines 30-44: the keys of LANGUAGE_MAP
LANGUAGE_MAP ==
  {"javascript", "typescript", "python", "java", "csharp", "cpp", "c", "go",
   "rust", "ruby", "php", "swift", "kotlin"}

\* LANGUAGE_MAP is an object literal: a lookup also finds the properties it
\* inherits from Object.prototype, all of them truthy.
ObjectPrototypeKeys ==
  {"constructor", "hasOwnProperty", "isPrototypeOf", "propertyIsEnumerable",
   "toLocaleString", "toString", "valueOf", "__proto__"}

\* lines 70-71: LANGUAGE_MAP[language] is truthy
hasRuntime(language) == language \in LANGUAGE_MAP \cup ObjectPrototypeKeys

PISTON_API == "https://emkc.org/api/v2/piston"

RunResult(stdout, stderr, exitCode, isError) ==
  [stdout |-> stdout, stderr |-> stderr, exitCode |-> exitCode,
   isError |-> isError]

\* How a block of statements ends.
ReturnOf(value) == [type |-> "return", value |-> value]
ThrowOf(message) == [type |-> "throw", message |-> message]

\* How the promise of an async function settles, and the requests the
\* call has made by then.
Fulfilled(value, requests) ==
  [settled |-> "fulfilled", value |-> value, requests |-> requests]
Rejected(message, requests) ==
  [settled |-> "rejected", value |-> message, requests |-> requests]

\* An async function fulfils its promise with what its body returns and
\* rejects it with what its body throws.
settle(completion, requests) ==
  IF completion.type = "throw"
  THEN Rejected(completion.message, requests)
  ELSE Fulfilled(completion.value, requests)

\* The catch clause of both runners (codeRunner.ts lines 141-148, lines
\* 163-170 of the second file): what the try block throws is returned as
\* an error result.
catchAsResult(completion) ==
  IF completion.type = "throw"
  THEN ReturnOf(RunResult("", completion.message, 1, TRUE))
  ELSE completion

\* a || b on strings
orElse(a, b) == IF a # "" THEN a ELSE b

\* What fetch and the body readers of its response do.
FetchRejects(message) == [fetch |-> "rejects", message |-> message]
HttpError(status, textRejects, text) ==
  [fetch |-> "resolves", ok |-> FALSE, status |-> status,
   textRejects |-> textRejects, text |-> text]
HttpOk(jsonRejects, data) ==
  [fetch |-> "resolves", ok |-> TRUE, jsonRejects |-> jsonRejects,
   data |-> data]

\* codeRunner.ts lines 72-77 (lines 70-75 of the second file)
unsupportedLanguage(language) ==
  RunResult("", "Language \"" \o language \o "\" is not supported for execution.",
            1, TRUE)

\* codeRunner.ts lines 97-110
serviceErrorMessage(response) ==
  LET errText == IF response.textRejects THEN "Unknown error" ELSE response.text IN
  IF includes(errText, "whitelist") \/ includes(errText, "Public Piston API")
  THEN "Code execution is temporarily unavailable due to API restrictions. Please try again later."
  ELSE IF includes(errText, "CORS") \/ includes(errText, "corsproxy")
  THEN "Code execution service is experiencing network issues. Please try again in a few moments."
  ELSE IF response.status = 429
  THEN "Too many requests. Please wait a moment before trying again."
  ELSE IF response.status >= 500
  THEN "Execution service is temporarily unavailable. Please try again later."
  ELSE "Execution service error: " \o errText

\* codeRunner.ts lines 122-140: the result read from a body of the
\* service; a body without run makes line 131 throw a TypeError
pistonResult(data) ==
  IF "compile" \in DOMAIN data /\ data.compile.code # 0
  THEN ReturnOf(RunResult("",
                          orElse(orElse(data.compile.stderr, data.compile.output),
                                 "Compilation failed"),
                          data.compile.code, TRUE))
  ELSE IF "run" \notin DOMAIN data
  THEN ThrowOf("Cannot read properties of undefined (reading 'stdout')")
  ELSE LET stdout == data.run.stdout
           stderr == data.run.stderr
           fallbackOutput ==
             IF stdout = "" /\ stderr = "" /\ data.run.output # ""
             THEN data.run.output ELSE ""
       IN  ReturnOf(RunResult(orElse(stdout, fallbackOutput), stderr,
                              data.run.code, data.run.code # 0))

\* codeRunner.ts lines 83-140: the try block
runCodeTry(response) ==
  IF response.fetch = "rejects" THEN ThrowOf(response.message)
  ELSE IF ~response.ok
  THEN ReturnOf(RunResult("", serviceErrorMessage(response), 1, TRUE))
  ELSE IF response.jsonRejects
  THEN ThrowOf("Unexpected token < in JSON at position 0")
  ELSE pistonResult(response.data)

\* codeRunner.ts lines 65-149
runCode(language, response) ==
  IF ~hasRuntime(language)
  THEN settle(ReturnOf(unsupportedLanguage(language)), <<>>)
  ELSE settle(catchAsResult(runCodeTry(response)),
              <<PISTON_API \o "/execute">>)

\* ---- the runner over several services ----

\* lines 1-5
CODE_EXECUTION_APIS ==
  <<"https://api.jdoodle.com/v1/execute",
    "https://emkc.org/api/v2/piston/execute",
    "https://onecompiler.com/api/v1/execute">>

\* lines 88-113
responseFormat(apiUrl) ==
  IF includes(apiUrl, "jdoodle") THEN "jdoodle"
  ELSE IF includes(apiUrl, "piston") THEN "piston"
  ELSE "default"

\* data.name, with missing for a property the body does not have
field(data, name, missing) ==
  IF name \in DOMAIN data THEN data[name] ELSE missing

\* The value of data.run when the body has no run.
Undefined == [undefined |-> TRUE]

\* lines 125-152
parseResponse(format, data) ==
  IF format = "jdoodle"
  THEN RunResult(field(data, "output", ""), field(data, "error", ""),
                 field(data, "exitCode", 0), field(data, "error", "") # "")
  ELSE IF format = "piston"
  THEN LET run == field(data, "run", Undefined) IN
       RunResult(field(run, "stdout", ""), field(run, "stderr", ""),
                 field(run, "code", 0),
                 "code" \notin DOMAIN run \/ run.code # 0)
  ELSE LET stdout == orElse(field(data, "stdout", ""), field(data, "output", ""))
           stderr == orElse(field(data, "stderr", ""), field(data, "errors", ""))
           exitCode == IF field(data, "code", 0) # 0
                       THEN data.code ELSE field(data, "exit_code", 0)
       IN  RunResult(stdout, stderr, exitCode, exitCode # 0)

\* lines 194-195: what new Function('console', code) and its call do
Programs ==
  {[code |-> "console.log(1 + 1)", throws |-> FALSE, output |-> "2",
    message |-> ""],
   [code |-> "console.error('bad')", throws |-> FALSE, output |-> "ERROR: bad",
    message |-> ""],
   [code |-> "null.x", throws |-> TRUE, output |-> "",
    message |-> "Cannot read properties of null (reading 'x')"],
   [code |-> "let = ;", throws |-> TRUE, output |-> "",
    message |-> "Unexpected token '='"]}

\* lines 174-220; its own catch (lines 212-219) turns what the program
\* throws into an error result
tryLocalExecution(program, language) ==
  IF language \in {"javascript", "js"}
  THEN IF program.throws
       THEN RunResult("", "Local execution error: " \o program.message, 1, TRUE)
       ELSE RunResult(program.output, "", 0, FALSE)
  ELSE RunResult("",
                 "Local execution is only supported for JavaScript. For "
                   \o language
                   \o ", please:\n1. Use an online compiler like CodePen, Replit, or JSFiddle\n2. Install a local compiler/interpreter\n3. Try again later when external services are available",
                 1, TRUE)

\* lines 82-161: the loop over the services from the i-th on; a fetch or
\* a json() that rejects is caught at line 154, a response that is not ok
\* falls through to the next service
RECURSIVE apiLoop(_, _, _, _, _)
apiLoop(i, responses, requests, program, language) ==
  IF i > Len(CODE_EXECUTION_APIS)
  THEN settle(catchAsResult(ReturnOf(tryLocalExecution(program, language))),
              requests)
  ELSE LET apiUrl == CODE_EXECUTION_APIS[i]
           sent == Append(requests, apiUrl)
           res == responses[i]
       IN  IF res.fetch = "resolves" /\ res.ok /\ ~res.jsonRejects
           THEN settle(catchAsResult(ReturnOf(parseResponse(responseFormat(apiUrl),
                                                            res.data))),
                       sent)
           ELSE apiLoop(i + 1, responses, sent, program, language)

\* lines 63-171 of the second file
runCodeOverApis(program, language, responses) ==
  IF ~hasRuntime(language)
  THEN settle(ReturnOf(unsupportedLanguage(language)), <<>>)
  ELSE apiLoop(1, responses, <<>>, program, language)

\* ---- inputs ----

RunLanguages == {"javascript", "python", "cobol", "constructor"}

ServiceFailures ==
  {FetchRejects("Failed to fetch"),
   HttpError(400, FALSE, "Bad request"),
   HttpError(401, FALSE, "Public Piston API is whitelist only"),
   HttpError(403, FALSE, "blocked by CORS policy"),
   HttpError(429, FALSE, "slow down"),
   HttpError(503, TRUE, ""),
   HttpOk(TRUE, Undefined)}

CompileFailed(stderr, output) ==
  [stdout |-> "", stderr |-> stderr, code |-> 1, output |-> output]

Ran(stdout, stderr, code, output) ==
  [stdout |-> stdout, stderr |-> stderr, code |-> code, output |-> output]

PistonBodies ==
  {[run |-> Ran("2\n", "", 0, "2\n")],
   [run |-> Ran("", "", 0, "2\n")],
   [run |-> Ran("", "Traceback (most recent call last)", 1, "")],
   [run |-> Ran("", "", 137, "")],
   [compile |-> Ran("", "", 0, ""), run |-> Ran("2\n", "", 0, "2\n")],
   [compile |-> CompileFailed("error: expected ';'", ""), run |-> Ran("", "", 0, "")],
   [compile |-> CompileFailed("", "main.c:1: error"), run |-> Ran("", "", 0, "")],
   [compile |-> CompileFailed("", ""), run |-> Ran("", "", 0, "")],
   [message |-> "runtime is unknown"]}

PistonResponses == ServiceFailures \cup {HttpOk(FALSE, data) : data \in PistonBodies}

JdoodleBodies ==
  {[output |-> "2\n", statusCode |-> 200],
   [error |-> "Daily limit reached", statusCode |-> 429],
   [output |-> "", exitCode |-> 1]}

DefaultBodies ==
  {[stdout |-> "2\n", code |-> 0],
   [output |-> "2\n"],
   [errors |-> "SyntaxError", exit_code |-> 1],
   [stderr |-> "warning: unused variable"]}

\* The bodies of the second file's piston branch: run and its code may be
\* missing.
PistonLooseBodies ==
  {[run |-> Ran("2\n", "", 0, "2\n")],
   [run |-> Ran("", "Traceback (most recent call last)", 1, "")],
   [run |-> [stdout |-> "", stderr |-> "", signal |-> "SIGKILL"]],
   [message |-> "runtime is unknown"]}

SomeFailures == {FetchRejects("Failed to fetch"), HttpError(503, TRUE, ""),
                 HttpOk(TRUE, Undefined)}

ApiResponses ==
  {<<a, b, c>> :
     a \in SomeFailures \cup {HttpOk(FALSE, data) : data \in JdoodleBodies},
     b \in SomeFailures \cup {HttpOk(FALSE, data) : data \in PistonLooseBodies},
     c \in {FetchRejects("Failed to fetch")}
             \cup {HttpOk(FALSE, data) : data \in DefaultBodies}}

\* runCode(code, language) of codeRunner.ts, the service answering with
\* response
ApplyRunCode ==
  /\ pc = "idle"
  /\ call = NoCall
  /\ \E language \in RunLanguages, response \in PistonResponses :
       call' = [fn     |-> "runCode",
                args   |-> <<language, response>>,
                result |-> runCode(language, response)]
  /\ UNCHANGED <<componentVars, review, issues, idCounter, sev, idx, pc, evaluated>>

\* runCode(code, language) of the second file, the services answering
\* with responses
ApplyRunCodeOverApis ==
  /\ pc = "idle"
  /\ call = NoCall
  /\ \E language \in RunLanguages, program \in Programs,
        responses \in ApiResponses :
       call' = [fn     |-> "runCodeOverApis",
                args   |-> <<language, program, responses>>,
                result |-> runCodeOverApis(program, language, responses)]
  /\ UNCHANGED <<componentVars, review, issues, idCounter, sev, idx, pc, evaluated>>

NextRun ==
  \/ ApplyRunCode
  \/ ApplyRunCodeOverApis

SpecRun == InitFn /\ [][NextRun]_vars



(***************************************************************************)
(* AuthProvider (AuthContext.tsx 34-113).  An async handler runs up to its *)
(* await in one step (its call enters auth.pending) and from the           *)
(* settlement of the awaited Firebase promise to its end in another; the   *)
(* calls of the onAuthStateChanged listener wait in auth.notify.           *)
(***************************************************************************)

\* The most handlers suspended at an await, and the most listener calls
\* waiting, at one time.
MaxPending == 1

MaxNotify == 2

Op(fn, stage, user, token) ==
  [fn |-> fn, stage |-> stage, user |-> user, token |-> token]

Handled(fn, arg, threw) == [fn |-> fn, arg |-> arg, threw |-> threw]

\* Firebase Auth calls the listener when the uid of its current user has
\* changed.
notifyAfter(a, newUser) ==
  IF newUser # a.currentUser THEN Append(a.notify, newUser) ELSE a.notify

canSuspend == Cardinality(auth.pending) < MaxPending

canNotify == Len(auth.notify) < MaxNotify

\* line 55: signIn called; it waits at line 56
SignInCall ==
  /\ canSuspend
  /\ \E u \in PasswordAccounts :
       auth' = [auth EXCEPT !.pending = @ \cup {Op("signIn", "called", u, Null)}]
  /\ UNCHANGED <<pipelineVars, page>>

\* lines 56-57: Firebase has signed the user in; setPendingUser
SignInResolves ==
  /\ canNotify
  /\ \E op \in auth.pending :
       /\ op.fn = "signIn"
       /\ auth' = [auth EXCEPT !.currentUser = op.user,
                               !.notify = notifyAfter(auth, op.user),
                               !.pendingUser = op.user,
                               !.pending = @ \ {op},
                               !.last = Handled("signIn", op.user, FALSE)]
  /\ UNCHANGED <<pipelineVars, page>>

\* line 60: signUp called; it waits at line 61
SignUpCall ==
  /\ canSuspend
  /\ \E u \in NewAccounts :
       auth' = [auth EXCEPT !.pending = @ \cup {Op("signUp", "called", u, Null)}]
  /\ UNCHANGED <<pipelineVars, page>>

\* line 61: Firebase has created the account and signed it in; signUp
\* waits at line 62
SignUpCreates ==
  /\ canNotify
  /\ \E op \in auth.pending :
       /\ op.fn = "signUp" /\ op.stage = "called"
       /\ auth' = [auth EXCEPT !.currentUser = op.user,
                               !.notify = notifyAfter(auth, op.user),
                               !.pending = (@ \ {op})
                                  \cup {Op("signUp", "created", op.user, Null)}]
  /\ UNCHANGED <<pipelineVars, page>>

\* lines 62-63: the profile is updated; setPendingUser
SignUpResolves ==
  /\ \E op \in auth.pending :
       /\ op.fn = "signUp" /\ op.stage = "created"
       /\ auth' = [auth EXCEPT !.pendingUser = op.user,
                               !.pending = @ \ {op},
                               !.last = Handled("signUp", op.user, FALSE)]
  /\ UNCHANGED <<pipelineVars, page>>

\* lines 56, 61, 62, 94, 103: the awaited promise is rejected and the
\* handler throws without running its remaining lines
HandlerRejects ==
  /\ \E op \in auth.pending :
       /\ op.fn \in {"signIn", "signUp", "signInWithGithub", "signOut"}
       /\ auth' = [auth EXCEPT !.pending = @ \ {op},
                               !.last = Handled(op.fn, op.user, TRUE)]
  /\ UNCHANGED <<pipelineVars, page>>

\* lines 43-50: the listener is called with the user Firebase reports
AuthStateChanged ==
  /\ auth.notify # <<>>
  /\ LET u == Head(auth.notify) IN
     auth' = [auth EXCEPT !.user = u,
                          !.loading = FALSE,
                          !.githubToken = IF u = Null THEN Null ELSE @,
                          !.storage = IF u = Null THEN Null ELSE @,
                          !.notify = Tail(@)]
  /\ UNCHANGED <<pipelineVars, page>>

\* lines 66-77
Verify2FA ==
  /\ \E code \in Codes :
       IF auth.pendingUser = Null
       THEN auth' = [auth EXCEPT !.last = Handled("verify2FA", code, TRUE)]
       ELSE IF code = CORRECT_CODE
       THEN auth' = [auth EXCEPT !.user = auth.pendingUser,
                                 !.pendingUser = Null,
                                 !.last = Handled("verify2FA", code, FALSE)]
       ELSE auth' = [auth EXCEPT !.last = Handled("verify2FA", code, TRUE)]
  /\ UNCHANGED <<pipelineVars, page>>

\* lines 79-84: firebaseSignOut is called and not awaited
Cancel2FA ==
  /\ auth.currentUser # Null => canSuspend
  /\ auth' = [auth EXCEPT !.pendingUser = Null,
                          !.pending = IF auth.currentUser # Null
                                      THEN @ \cup {Op("cancel2FA", "called", Null, Null)}
                                      ELSE @,
                          !.last = Handled("cancel2FA", Null, FALSE)]
  /\ UNCHANGED <<pipelineVars, page>>

\* line 82: Firebase has signed out
Cancel2FASignsOut ==
  /\ canNotify
  /\ \E op \in auth.pending :
       /\ op.fn = "cancel2FA"
       /\ auth' = [auth EXCEPT !.currentUser = Null,
                               !.notify = notifyAfter(auth, Null),
                               !.pending = @ \ {op}]
  /\ UNCHANGED <<pipelineVars, page>>

\* lines 91-94: signInWithGithub called; it waits for the popup
SignInWithGithubCall ==
  /\ canSuspend
  /\ \E u \in GithubAccounts :
       auth' = [auth EXCEPT
                  !.pending = @ \cup {Op("signInWithGithub", "called", u, Null)}]
  /\ UNCHANGED <<pipelineVars, page>>

\* lines 94-99: Firebase has signed the user in; the access token of the
\* credential, when it has one, is kept in the state and in the storage
SignInWithGithubResolves ==
  /\ canNotify
  /\ \E op \in auth.pending : \E accessToken \in Tokens \cup {Null} :
       /\ op.fn = "signInWithGithub"
       /\ auth' = [auth EXCEPT
                     !.currentUser = op.user,
                     !.notify = notifyAfter(auth, op.user),
                     !.githubToken = IF accessToken # Null THEN accessToken ELSE @,
                     !.storage = IF accessToken # Null THEN accessToken ELSE @,
                     !.pending = @ \ {op},
                     !.last = Handled("signInWithGithub", op.user, FALSE)]
  /\ UNCHANGED <<pipelineVars, page>>

\* lines 102-103: signOut called; it waits at line 103
SignOutCall ==
  /\ canSuspend
  /\ auth' = [auth EXCEPT !.pending = @ \cup {Op("signOut", "called", Null, Null)}]
  /\ UNCHANGED <<pipelineVars, page>>

\* Mutant of SignOutResolves: the removeItem of line 105 left out.
SignOutResolves_keepsStorage ==
  /\ canNotify
  /\ \E op \in auth.pending :
       /\ op.fn = "signOut"
       /\ auth' = [auth EXCEPT !.currentUser = Null,
                               !.notify = notifyAfter(auth, Null),
                               !.githubToken = Null,
                               !.pending = @ \ {op},
                               !.last = Handled("signOut", Null, FALSE)]
  /\ UNCHANGED <<pipelineVars, page>>

\* lines 103-105: Firebase has signed out; the token is dropped from the
\* state and from the storage
SignOutResolves ==
  /\ canNotify
  /\ \E op \in auth.pending :
       /\ op.fn = "signOut"
       /\ auth' = [auth EXCEPT !.currentUser = Null,
                               !.notify = notifyAfter(auth, Null),
                               !.githubToken = Null,
                               !.storage = Null,
                               !.pending = @ \ {op},
                               !.last = Handled("signOut", Null, FALSE)]
  /\ UNCHANGED <<pipelineVars, page>>

\* lines 35-43: the provider mounts.  The token is read from the session
\* storage, and Firebase reports the session it has restored, if any.
InitAuth ==
  /\ review = EmptyReview
  /\ issues = <<>>
  /\ idCounter = 1
  /\ sev = 1
  /\ idx = 1
  /\ pc = "idle"
  /\ evaluated = <<>>
  /\ call = NoCall
  /\ \E restored \in {Null} \cup PasswordAccounts \cup GithubAccounts :
     \E stored \in {Null} \cup Tokens :
       /\ stored # Null => restored \in {Null} \cup GithubAccounts
       /\ auth = [AuthUnmounted EXCEPT !.githubToken = stored,
                                       !.storage = stored,
                                       !.currentUser = restored,
                                       !.notify = <<restored>>]
  /\ page = PageUnmounted

NextAuth ==
  \/ SignInCall
  \/ SignInResolves
  \/ SignUpCall
  \/ SignUpCreates
  \/ SignUpResolves
  \/ HandlerRejects
  \/ AuthStateChanged
  \/ Verify2FA
  \/ Cancel2FA
  \/ Cancel2FASignsOut
  \/ SignInWithGithubCall
  \/ SignInWithGithubResolves
  \/ SignOutCall
  \/ SignOutResolves

SpecAuth == InitAuth /\ [][NextAuth]_vars

(***************************************************************************)
(* Index (Index.tsx 14-113): the handlers of the page.  A handler runs up  *)
(* to its await in one step and from the settlement of the awaited         *)
(* promise to its next await, or to its end, in another.                   *)
(***************************************************************************)

\* What the user can have in the editor.
EditorCodes == {"", "  ", "let a = 1;", "print(1)"}

\* The reviews the analysis service answers with.
ServerReviews == {SplitAt(Lengths, 1, 2, 3), SplitAt(Retried, 1, 2, 3), EmptyReview}

\* The rewritten_code the analysis service answers with.
ServerRewrites == {Fenced("js", "let a = 1;"), "const a = 1;"}

\* CodeEditor onChange: setCode
EditCode ==
  /\ \E c \in EditorCodes :
       /\ c # page.code
       /\ page' = [page EXCEPT !.code = c]
  /\ UNCHANGED <<pipelineVars, auth>>

\* lines 48-56, behind the button of lines 178-179: the review is asked for
HandleReviewCode ==
  /\ ~(trim(page.code) = "" \/ page.isReviewing)
  /\ page' = [page EXCEPT !.isReviewing = TRUE,
                          !.showComparison = FALSE,
                          !.reviewAttempted = TRUE,
                          !.reviewIssues = <<>>,
                          !.review = [code |-> page.code, stage |-> "analyzing"]]
  /\ UNCHANGED <<pipelineVars, auth>>

\* lines 57-60: analyzeCode has returned; the handler waits for the save
ReviewResolves ==
  /\ page.review.stage = "analyzing"
  /\ \E r \in ServerReviews :
       page' = [page EXCEPT !.reviewIssues = parseReviewResponse(r),
                            !.review.stage = "saving"]
  /\ UNCHANGED <<pipelineVars, auth>>

\* lines 60-65, 75-77: saveToFirestore has returned (it catches its own
\* errors); the toast, and finally setIsReviewing(false)
ReviewCompletes ==
  /\ page.review.stage = "saving"
  /\ page' = [page EXCEPT !.isReviewing = FALSE,
                          !.review = NoRequest,
                          !.toast = "Review Complete"]
  /\ UNCHANGED <<pipelineVars, auth>>

\* lines 66-77: analyzeCode has thrown
ReviewFails ==
  /\ page.review.stage = "analyzing"
  /\ page' = [page EXCEPT !.reviewIssues = <<>>,
                          !.isReviewing = FALSE,
                          !.review = NoRequest,
                          !.toast = "Review Failed"]
  /\ UNCHANGED <<pipelineVars, auth>>

\* lines 80-86, behind the button of lines 192-193
HandleRewriteCode ==
  /\ ~(trim(page.code) = "" \/ page.isRewriting)
  /\ page' = [page EXCEPT !.isRewriting = TRUE,
                          !.rewrite = [code |-> page.code, stage |-> "analyzing"]]
  /\ UNCHANGED <<pipelineVars, auth>>

\* lines 86-90
RewriteResolves ==
  /\ page.rewrite.stage = "analyzing"
  /\ \E data \in ServerRewrites :
       page' = [page EXCEPT !.rewrittenCode = rewriteResult(page.rewrite.code, data),
                            !.showComparison = TRUE,
                            !.rewrite.stage = "saving"]
  /\ UNCHANGED <<pipelineVars, auth>>

\* lines 90-95, 103-105
RewriteCompletes ==
  /\ page.rewrite.stage = "saving"
  /\ page' = [page EXCEPT !.isRewriting = FALSE,
                          !.rewrite = NoRequest,
                          !.toast = "Rewrite Complete"]
  /\ UNCHANGED <<pipelineVars, auth>>

\* lines 96-105
RewriteFails ==
  /\ page.rewrite.stage = "analyzing"
  /\ page' = [page EXCEPT !.isRewriting = FALSE,
                          !.rewrite = NoRequest,
                          !.toast = "Rewrite Failed"]
  /\ UNCHANGED <<pipelineVars, auth>>

\* lines 108-113, behind the button of lines 151-152
HandleReset ==
  /\ ~(page.code = "" /\ Len(page.reviewIssues) = 0)
  /\ page' = [page EXCEPT !.code = "",
                          !.reviewIssues = <<>>,
                          !.showComparison = FALSE,
                          !.rewrittenCode = ""]
  /\ UNCHANGED <<pipelineVars, auth>>

InitPage ==
  /\ review = EmptyReview
  /\ issues = <<>>
  /\ idCounter = 1
  /\ sev = 1
  /\ idx = 1
  /\ pc = "idle"
  /\ evaluated = <<>>
  /\ call = NoCall
  /\ auth = AuthUnmounted
  /\ page = PageUnmounted

NextPage ==
  \/ EditCode
  \/ HandleReviewCode
  \/ ReviewResolves
  \/ ReviewCompletes
  \/ ReviewFails
  \/ HandleRewriteCode
  \/ RewriteResolves
  \/ RewriteCompletes
  \/ RewriteFails
  \/ HandleReset

SpecPage == InitPage /\ [][NextPage]_vars

(***************************************************************************)
(* What the properties below speak of.                                     *)
(***************************************************************************)

\* The statements of a review in the order the loops visit them.
Flat(r) ==
  itemsOf(r, "Critical") \o itemsOf(r, "High") \o itemsOf(r, "Medium")
    \o itemsOf(r, "Low")

OnlyBucket(severity, seq) ==
  [k \in {"Critical", "High", "Medium", "Low"} |->
     IF k = severity THEN seq ELSE <<>>]

\* The statement passes the Noise Filter and the Policy Filter.
passesFilters(item) ==
  LET c == cleanItem(item) IN
  /\ c # ""
  /\ ~noiseOf(c)
  /\ ~policyOf(c, partsOf(c))

titleOf(item) == partsOf(cleanItem(item)).title

\* Two titles are duplicates: their normalized forms are equal or one
\* contains the other.
titlesClash(a, b) ==
  LET na == normOf(a)
      nb == normOf(b)
  IN  na = nb \/ includes(na, nb) \/ includes(nb, na)

severityRank ==
  [critical |-> 1, high |-> 2, medium |-> 3, low |-> 4]

Done == pc = "done"

\* C1: the accumulated issue list never holds more than 5 issues, at any
\* step of the two loops and on return.
C1_AtMostFiveIssues == Len(issues) <= 5

\* C1 witness: a run returned 5 issues and left statements unvisited.
C1_Witness ==
  /\ Done
  /\ Len(issues) = 5
  /\ Len(evaluated) < Len(Flat(review))

\* The positions of Flat(r) whose statement passes both filters and whose
\* title is no duplicate of the title of any filter-passing statement at
\* an earlier position.
FreshPositions(r) ==
  LET f == Flat(r) IN
  {p \in 1..Len(f) :
     /\ passesFilters(f[p])
     /\ \A q \in 1..(p - 1) :
          passesFilters(f[q]) => ~titlesClash(titleOf(f[q]), titleOf(f[p]))}

\* The input holds 5 filter-passing statements with pairwise non-duplicate
\* titles.
HasFivePairwiseDistinct(r) ==
  LET f    == Flat(r)
      good == {p \in 1..Len(f) : passesFilters(f[p])}
  IN  \E P \in SUBSET good :
        /\ Cardinality(P) = 5
        /\ \A p \in P : \A q \in P :
             p # q => ~titlesClash(titleOf(f[p]), titleOf(f[q]))

\* C2 as stated: with at least 5 filter-passing statements of pairwise
\* non-duplicate titles in the input, exactly 5 issues are returned.
C2_Original ==
  (Done /\ HasFivePairwiseDistinct(review)) => Len(issues) = 5

\* C2 amended: with at least 5 filter-passing statements whose titles are
\* no duplicates of the title of any filter-passing statement before them
\* in the input, exactly 5 issues are returned.
C2_ExactlyFiveWhenFresh ==
  (Done /\ Cardinality(FreshPositions(review)) >= 5) => Len(issues) = 5

\* C2 witness: such an input, with rejected statements among the five and
\* a filter-passing duplicate in it, has returned.
C2_Witness ==
  /\ Done
  /\ Cardinality(FreshPositions(review)) >= 5
  /\ \E p \in 1..Len(Flat(review)) :
       passesFilters(Flat(review)[p]) /\ p \notin FreshPositions(review)
  /\ \E p \in 1..Len(Flat(review)) : ~passesFilters(Flat(review)[p])
  /\ Len(issues) = 5

\* C3: the severities of the issues are non-decreasing under
\* critical < high < medium < low, at every step and on return.
C3_SeverityNonDecreasing ==
  \A i \in 1..Len(issues) : \A j \in 1..Len(issues) :
     i < j => severityRank[issues[i].severity] <= severityRank[issues[j].severity]

\* C3 witness: an output with issues of three different bands.
C3_Witness ==
  /\ Done
  /\ Cardinality({issues[k].severity : k \in 1..Len(issues)}) >= 3

\* C4: the k-th issue has the decimal string of k as its id, whatever was
\* skipped before it.
C4_IdsContiguous ==
  \A k \in 1..Len(issues) : k <= 9 /\ issues[k].id = SubSeq("123456789", k, k)

\* C4 witness: five issues were returned after more than five statements
\* were visited, so some were skipped in between.
C4_Witness ==
  /\ Done
  /\ Len(issues) = 5
  /\ Len(evaluated) > 5

\* C5: no two issues of the output have duplicate titles, within a bucket
\* or across buckets.
C5_NoDuplicateTitles ==
  \A i \in 1..Len(issues) : \A j \in 1..Len(issues) :
     i # j => ~titlesClash(issues[i].title, issues[j].title)

\* C5 witness: a filter-passing statement was dropped because its title
\* duplicates an issue of another bucket.
C5_Witness ==
  /\ Done
  /\ Len(issues) >= 1
  /\ \E severity \in DOMAIN review : \E n \in 1..Len(review[severity]) :
       LET item == review[severity][n] IN
       /\ passesFilters(item)
       /\ \A k \in 1..Len(issues) : issues[k].title # titleOf(item)
       /\ \E k \in 1..Len(issues) :
            /\ issues[k].severity # severityMap[severity]
            /\ titlesClash(issues[k].title, titleOf(item))

\* C6 as stated: the two SQL statements, in this order in one bucket
\* with the other buckets empty, give exactly one issue, titled by the
\* first statement.
C6_OnlyFirstSqlKept ==
  \A severity \in {"Critical", "High", "Medium", "Low"} :
     (Done /\ review = OnlyBucket(severity, <<sSqlFirst, sSqlSecond>>))
       => /\ Len(issues) = 1
          /\ issues[1].title = "SQL injection in query builder."

\* C7 as stated: the description of an issue (its statement without the
\* list marker and the emphasis markers) is never noise.
C7_NoNoiseDescription ==
  \A k \in 1..Len(issues) : ~noiseOf(issues[k].description)

\* The cleaned statement has no text after its first sentence end, or no
\* sentence end at all.
hasNoRest(cleaned) ==
  LET m == sentenceMatch(partsOf(cleaned).description) IN
  ~m.matched \/ trim(m.g2) = ""

\* The title holds no term of the Policy Filter.
titleHasNoPolicyTerm(title) ==
  /\ \A w \in BothFieldTerms \cup TitleOnlyTerms : ~includes(toLowerCase(title), w)
  /\ ~startsWith(toLowerCase(title), "consider")

\* C8 as stated: a statement alone in the input that passes the Noise
\* Filter, has nothing after its first sentence and a title free of policy
\* terms, becomes an issue whose suggestion is the fallback sentence.
C8_FallbackSuggestionEmitted ==
  (/\ Done
   /\ Len(Flat(review)) = 1
   /\ LET c == cleanItem(Flat(review)[1]) IN
        /\ c # ""
        /\ ~noiseOf(c)
        /\ hasNoRest(c)
        /\ titleHasNoPolicyTerm(partsOf(c).title))
    => /\ Len(issues) = 1
       /\ issues[1].suggestion = FALLBACK_SUGGESTION

\* C9: once five issues are held no further statement is examined, in the
\* current bucket or a later one; and seven valid Critical statements give
\* five critical issues with ids 1 to 5, the last two statements unvisited.
C9_EarlyStop ==
  /\ [][Len(issues) >= 5 => evaluated' = evaluated]_vars
  /\ []((Done /\ review = OnlyBucket("Critical", SevenValid))
          => /\ Len(issues) = 5
             /\ \A k \in 1..5 :
                  /\ issues[k].severity = "critical"
                  /\ issues[k].id = SubSeq("12345", k, k)
             /\ evaluated = SubSeq(SevenValid, 1, 5))

\* C9 witness: the run on seven valid Critical statements returned having
\* examined five of them.
C9_Witness ==
  /\ Done
  /\ review = OnlyBucket("Critical", SevenValid)
  /\ Len(evaluated) = 5
  /\ Len(issues) = 5

C10_Input ==
  [Critical |-> <<"Null pointer dereference when input is empty. Add a guard clause before dereferencing.">>,
   High     |-> <<>>,
   Medium   |-> <<"Consider adding more comments to this function for clarity.">>,
   Low      |-> <<>>]

\* C10: the input above gives exactly one issue, with id "1", severity
\* critical, the first sentence as title and the second as suggestion; the
\* Medium statement is examined and is noise.
C10_NullDerefScenario ==
  (Done /\ review = C10_Input)
    => /\ Len(issues) = 1
       /\ issues[1].id = "1"
       /\ issues[1].severity = "critical"
       /\ issues[1].title = "Null pointer dereference when input is empty."
       /\ issues[1].suggestion = "Add a guard clause before dereferencing."
       /\ Len(evaluated) = 2
       /\ noiseOf(evaluated[2])

\* C10 witness: the run on that input returned.
C10_Witness ==
  /\ Done
  /\ review = C10_Input
  /\ evaluated = <<C10_Input.Critical[1], C10_Input.Medium[1]>>

\* C11: isDuplicate gives the same answer with the two titles exchanged,
\* and TRUE both ways when the normalized form of one title is contained
\* in that of the other.
C11_DedupSymmetric ==
  call.fn = "isDuplicate"
    => /\ call.result = call.reverse
       /\ LET na == normalize(call.args[1])
              nb == normalize(call.args[2])
          IN  (includes(na, nb) \/ includes(nb, na))
                => (call.result /\ call.reverse)

\* C11 witness: the pair of the claim was tested, both ways TRUE.
C11_Witness ==
  /\ call.fn = "isDuplicate"
  /\ call.args = <<"Off-by-one error", "Off-by-one error in loop">>
  /\ call.result
  /\ call.reverse

\* The text neither starts nor ends with three backticks.
isUnfenced(text) == ~startsWith(text, FENCE) /\ ~endsWith(text, FENCE)

\* C12 as stated: a fenced body comes back trimmed whatever the language
\* tag, an unfenced text comes back trimmed, and a second application
\* changes nothing.
C12_FenceRoundTrip ==
  call.fn = "stripCodeFences"
    => /\ \A tag \in FenceTags \ {""} : \A body \in FenceBodies :
            call.args[1] = Fenced(tag, body) => call.result = trim(body)
       /\ isUnfenced(call.args[1])
            => (call.result = trim(call.args[1]) /\ call.again = call.result)

\* The position of the first of . ! ? in s from position i on, 0 when
\* there is none.
RECURSIVE sentenceEndFrom(_, _)
sentenceEndFrom(s, i) ==
  IF i > Len(s) THEN 0
  ELSE IF SubSeq(s, i, i) \in {".", "!", "?"} THEN i
  ELSE sentenceEndFrom(s, i + 1)

\* The first sentence of a cleaned statement: the text up to its first
\* . ! ? when one follows its first character, the whole text otherwise.
firstSentenceOf(cleaned) ==
  LET e == sentenceEndFrom(cleaned, 1) IN
  IF e >= 2 THEN SubSeq(cleaned, 1, e) ELSE cleaned

\* C13: every title of an output has at most 80 characters; it is the
\* first 77 characters of the first sentence and "..." when that sentence
\* has more than 80 characters, and the first sentence itself otherwise.
C13_TitleAtMost80 ==
  Done =>
    \A k \in 1..Len(issues) :
       LET first == firstSentenceOf(issues[k].description)
           title == issues[k].title
       IN  /\ Len(title) <= 80
           /\ Len(first) > 80
                => (title = SubSeq(first, 1, 77) \o "..." /\ Len(title) = 80)
           /\ Len(first) <= 80 => title = first

\* C13 witness: an output holds a truncated title, and a title of exactly
\* 80 characters left as it was.
C13_Witness ==
  /\ Done
  /\ \E k \in 1..Len(issues) :
       /\ Len(firstSentenceOf(issues[k].description)) = 81
       /\ Len(issues[k].title) = 80
  /\ \E k \in 1..Len(issues) :
       /\ Len(firstSentenceOf(issues[k].description)) = 80
       /\ issues[k].title = firstSentenceOf(issues[k].description)

BucketKeys == {"Critical", "High", "Medium", "Low"}

\* The review with every absent key present and empty.
Filled(r) == [k \in BucketKeys |-> IF k \in DOMAIN r THEN r[k] ELSE <<>>]

\* C14: a run on an input with absent bucket keys returns what
\* parseReviewResponse returns for the same input with those buckets
\* present and empty, and the empty sequence when no bucket holds a
\* statement.
C14_AbsentAsEmpty ==
  (Done /\ DOMAIN review # BucketKeys) =>
     /\ issues = parseReviewResponse(Filled(review))
     /\ (\A k \in DOMAIN review : review[k] = <<>>) => issues = <<>>

\* C14 witness: a run on an input without a Critical key has returned
\* issues.
C14_Witness ==
  /\ Done
  /\ "Critical" \notin DOMAIN review
  /\ Len(issues) >= 2

\* A run on an input with no key at all has returned.
C14_WitnessAllAbsent == Done /\ DOMAIN review = {}

PolicyTerms ==
  {"refactor", "restructure", "complex", "abstract", "comment", "document",
   "time complexity", "space complexity", "big o", "o(n)"}

\* C16: isOverEngineered(title, suggestion) is true exactly when the title
\* or the suggestion contains one of the ten terms, whatever the case of
\* its letters, or the title starts with "consider" and the suggestion has
\* fewer than 30 characters.
C16_TermsInBothFields ==
  call.fn = "isOverEngineered" =>
     LET t == toLowerCase(call.args[1])
         g == toLowerCase(call.args[2])
     IN  call.result
           <=> \/ \E w \in PolicyTerms : includes(t, w) \/ includes(g, w)
               \/ startsWith(t, "consider") /\ Len(call.args[2]) < 30

\* The title after the truncation of lines 234-236.
cut80(t) == IF Len(t) > 80 THEN SubSeq(t, 1, 77) \o "..." ELSE t

\* The parts extractParts is to return for the cleaned text when the
\* sentence ends at position e.
splitAfter(cleaned, e) ==
  LET rest == trim(SubSeq(cleaned, e + 1, Len(cleaned))) IN
  [title      |-> cut80(trim(SubSeq(cleaned, 1, e))),
   suggestion |-> IF rest = "" THEN FALLBACK_SUGGESTION ELSE rest]

\* The parts extractParts is to return when it finds no sentence.
unsplit(cleaned) ==
  [title      |-> cut80(SubSeq(cleaned, 1, IF Len(cleaned) < 80 THEN Len(cleaned) ELSE 80)),
   suggestion |-> FALLBACK_SUGGESTION]

titleAndSuggestion(parts) ==
  [title |-> parts.title, suggestion |-> parts.suggestion]

C17_WitnessLeadingEnd ==
  /\ call.fn = "extractParts"
  /\ sentenceEndFrom(call.result.description, 1) = 1
  /\ call.result.suggestion = FALLBACK_SUGGESTION
  /\ Len(call.result.title) > 1

\* The text is wrapped in matching quote characters.
wrappedInMatchingQuotes(t) ==
  /\ Len(t) >= 2
  /\ SubSeq(t, 1, 1) \in {"\"", "'"}
  /\ SubSeq(t, Len(t), Len(t)) = SubSeq(t, 1, 1)

\* One of the rules of the Noise Filter other than the quote rule holds.
otherNoiseRule(t) ==
  \/ startsWith(t, "###")
  \/ startsWith(t, FENCE)
  \/ reNoIssues(t)
  \/ reNarrative(t)
  \/ reCodeKeyword(t)
  \/ Len(t) < 15
  \/ reAdvisory(t)
  \/ rePlatitude(t)
  \/ reCommenting(t)
  \/ reNaming(t)

\* C18: isNoiseItem(text) is true exactly when one of the listed rules
\* holds on the trimmed text, the quote rule holding only for a text whose
\* first and last characters are the same quote character.
C18_QuoteRuleMatching ==
  call.fn = "isNoiseItem" =>
     LET t == trim(call.args[1]) IN
     call.result <=> (otherNoiseRule(t) \/ wrappedInMatchingQuotes(t))

\* C19: isDuplicate is true for "Null pointer dereference on line 4"
\* against "Null pointer dereference risk", in either order.
C19_NearRestatementCaught ==
  (/\ call.fn = "isDuplicate"
   /\ call.args = <<"Null pointer dereference on line 4",
                    "Null pointer dereference risk">>)
     => (call.result /\ call.reverse)

\* The number of statements the loops visit before those of bucket k.
offsetOf(r, k) ==
  LET lenOf(b) == IF b \in DOMAIN r THEN Len(r[b]) ELSE 0 IN
  CASE k = "Critical" -> 0
    [] k = "High"     -> lenOf("Critical")
    [] k = "Medium"   -> lenOf("Critical") + lenOf("High")
    [] k = "Low"      -> lenOf("Critical") + lenOf("High") + lenOf("Medium")

removeAt(seq, i) ==
  IF i \in 1..Len(seq)
  THEN SubSeq(seq, 1, i - 1) \o SubSeq(seq, i + 1, Len(seq))
  ELSE seq

\* The review r without the statement the loops visit in position p.
WithoutStatement(r, p) ==
  [k \in DOMAIN r |-> removeAt(r[k], p - offsetOf(r, k))]

\* The statement in position p of pairs is rejected: the pass over the
\* first p pairs returns what the pass over the first p - 1 returns.
rejectedAt(pairs, p) ==
  parseFrom(SubSeq(pairs, 1, p), 1, <<>>, 1)
    = parseFrom(SubSeq(pairs, 1, p - 1), 1, <<>>, 1)

\* C20: the next id is always one more than the number of accepted
\* issues, whatever was rejected in between, and a run returns what
\* parseReviewResponse returns for its input without any one of the
\* statements the run rejected.
C20_RejectedLeavesNoTrace ==
  /\ idCounter = Len(issues) + 1
  /\ Done =>
       LET pairs == Pairs(review) IN
       \A p \in 1..Len(evaluated) :
          rejectedAt(pairs, p)
            => parseReviewResponse(WithoutStatement(review, p)) = issues

\* C20 witness: a run has returned two issues or more after rejecting a
\* statement that came before one it accepted, the two of the same title.
C20_Witness ==
  /\ Done
  /\ Len(issues) >= 2
  /\ \E p \in 1..(Len(evaluated) - 1) :
       /\ rejectedAt(Pairs(review), p)
       /\ ~skippedEarly(evaluated[p])
       /\ ~rejectedAt(Pairs(review), p + 1)
       /\ partsOf(evaluated[p]).title = partsOf(evaluated[p + 1]).title

\* The issue is built from the pair: it carries the statement's cleaned
\* text and title, and the lowercase form of its bucket.
builtFrom(issue, pair) ==
  LET parts == partsOf(cleanItem(pair[2])) IN
  /\ issue.description = parts.description
  /\ issue.title = parts.title
  /\ issue.suggestion = parts.suggestion
  /\ issue.severity = toLowerCase(pair[1])

\* The issues from position k on are built, in order, from distinct pairs
\* at position p or later.
RECURSIVE embedsFrom(_, _, _, _)
embedsFrom(iss, pairs, k, p) ==
  IF k > Len(iss) THEN TRUE
  ELSE IF p > Len(pairs) THEN FALSE
  ELSE IF builtFrom(iss[k], pairs[p]) THEN embedsFrom(iss, pairs, k + 1, p + 1)
  ELSE embedsFrom(iss, pairs, k, p + 1)

\* C21: the issues of an output are built from distinct statements of the
\* input, each with the lowercase form of its statement's bucket, in the
\* order of their statements in Critical, High, Medium, Low.
C21_OrderAndBucketKept ==
  Done => embedsFrom(issues, Pairs(review), 1, 1)

\* C21 witness: an output holds issues of three severities, with a
\* rejected statement before the last of them.
C21_Witness ==
  /\ Done
  /\ Cardinality({issues[k].severity : k \in 1..Len(issues)}) >= 3
  /\ Len(evaluated) > Len(issues)
  /\ ~builtFrom(issues[1], Pairs(review)[1])

\* C22: the issues sorted by severity for display are the issues in the
\* order parseReviewResponse returned them, and the counts displayed for
\* the four severities add up to the number of issues, at most 5.
C22_SortKeepsEmissionOrder ==
  call.fn = "ReviewResults" =>
     /\ call.sortedIssues = issues
     /\ call.severityCounts["critical"] + call.severityCounts["high"]
          + call.severityCounts["medium"] + call.severityCounts["low"]
            = Len(issues)
     /\ Len(issues) <= 5

\* C22 witness: five issues of three severities or more are displayed.
C22_Witness ==
  /\ call.fn = "ReviewResults"
  /\ call.view = "list"
  /\ Len(call.sortedIssues) = 5
  /\ Cardinality({v \in DOMAIN call.severityCounts : call.severityCounts[v] > 0}) >= 3

\* The number of fence markers in s, counted from the left.
RECURSIVE countFences(_)
countFences(s) ==
  IF Len(s) < 3 THEN 0
  ELSE IF SubSeq(s, 1, 3) = FENCE THEN 1 + countFences(SubSeq(s, 4, Len(s)))
  ELSE countFences(SubSeq(s, 2, Len(s)))

\* The markers stripCodeFences is to remove from the trimmed text: one at
\* its start and one at its end, where they are there and are two.
outerFences(t) ==
  LET leading  == IF Len(t) >= 3 /\ SubSeq(t, 1, 3) = FENCE THEN 1 ELSE 0
      trailing == IF /\ Len(t) >= 3 + 3 * leading
                     /\ SubSeq(t, Len(t) - 2, Len(t)) = FENCE
                  THEN 1 ELSE 0
  IN  leading + trailing

\* C23: stripCodeFences removes one leading and one trailing fence marker
\* and no other marker, its result is a piece of its argument, and of a
\* text wrapped in two fence pairs it leaves the inner pair in place.
C23_OnlyOuterFencesStripped ==
  call.fn = "stripCodeFences" =>
     LET t == trim(call.args[1]) IN
     /\ countFences(call.result) = countFences(t) - outerFences(t)
     /\ includes(t, call.result)
     /\ \A inner \in {"", "python"} :
          LET kept == Fenced(inner, "print(1)") IN
          (\E outer \in {"", "markdown", "c++"} : call.args[1] = Fenced(outer, kept))
             => endsWith(call.result, kept)

\* C23 witness: stripCodeFences has removed the outer pair of a text
\* wrapped in two fence pairs.
C23_Witness ==
  /\ call.fn = "stripCodeFences"
  /\ call.args[1] = Fenced("markdown", Fenced("python", "print(1)"))
  /\ call.result = Fenced("python", "print(1)")

\* stripCodeFences has left a text with fences inside as it was.
C23_WitnessInterior ==
  /\ call.fn = "stripCodeFences"
  /\ countFences(call.args[1]) = 2
  /\ call.result = call.args[1]

\* The six terms the Policy Filter looks for in both fields.
RejectedTerms ==
  {"refactor", "restructure", "complex", "abstract", "comment", "document"}

\* C24: no issue of an output has one of the six terms in its title or
\* its suggestion, whatever the case of its letters, and none has a title
\* that starts with "consider" and a suggestion of fewer than 30
\* characters.
C24_EmittedPassPolicy ==
  Done =>
    \A k \in 1..Len(issues) :
       LET t == toLowerCase(issues[k].title)
           g == toLowerCase(issues[k].suggestion)
       IN  /\ \A w \in RejectedTerms : ~includes(t, w) /\ ~includes(g, w)
           /\ ~(startsWith(t, "consider") /\ Len(issues[k].suggestion) < 30)

\* C24 witness: a run has returned issues after rejecting a statement for
\* a term its suggestion holds.
C24_Witness ==
  /\ Done
  /\ Len(issues) >= 1
  /\ \E p \in 1..Len(evaluated) :
       /\ ~skippedEarly(evaluated[p])
       /\ includes(toLowerCase(partsOf(evaluated[p]).suggestion), "refactor")
       /\ ~includes(toLowerCase(partsOf(evaluated[p]).title), "refactor")
       /\ partsOf(evaluated[p]).suggestion # FALLBACK_SUGGESTION

\* C25: after every step, a user whose two-factor verification is pending
\* is not the authenticated user of the context, and a verify2FA that
\* throws leaves user and pendingUser as they were.
C25_TwoFactorGate ==
  [][/\ auth'.pendingUser # Null => auth'.user # auth'.pendingUser
     /\ (Verify2FA /\ auth'.last.threw)
          => (auth'.user = auth.user /\ auth'.pendingUser = auth.pendingUser)]_vars

\* C26: a review request writes its result into reviewIssues only for
\* the code the editor still holds (not after Reset, not for code changed
\* since), isReviewing is false whenever no review request is under way,
\* and a failed review leaves reviewIssues empty.
C26_NoStaleReviewResult ==
  [][/\ (page'.reviewIssues # page.reviewIssues /\ page'.reviewIssues # <<>>)
          => page.review.code = page.code
     /\ page'.review = NoRequest => ~page'.isReviewing
     /\ (page.review # NoRequest /\ page'.review = NoRequest
           /\ page'.toast = "Review Failed")
          => page'.reviewIssues = <<>>]_vars

\* The words of s: its pieces between runs of whitespace, in order.
RECURSIVE wordsOf(_, _, _)
wordsOf(s, i, word) ==
  IF i > Len(s) THEN IF word = "" THEN <<>> ELSE <<word>>
  ELSE IF SubSeq(s, i, i) \in {" ", "\n", "\t", "\r", "\f"}
  THEN (IF word = "" THEN <<>> ELSE <<word>>) \o wordsOf(s, i + 1, "")
  ELSE wordsOf(s, i + 1, word \o SubSeq(s, i, i))

\* C27: in rewrite mode analyzeCode returns the code of the caller as it
\* is when the fence-stripped rewritten code has the same words between
\* its runs of whitespace, and the fence-stripped rewritten code in every
\* other successful case; on a response that is not ok it throws.
C27_RewriteReturnsOriginalWhenSame ==
  call.fn = "analyzeCode" =>
     LET code     == call.args[1]
         response == call.args[3]
         stripped == stripCodeFences(response.data)
     IN  /\ ~response.ok => call.result.threw
         /\ (response.ok /\ call.args[2] = "rewrite") =>
              /\ ~call.result.threw
              /\ call.result.value =
                   IF wordsOf(code, 1, "") = wordsOf(stripped, 1, "")
                   THEN code
                   ELSE stripped

\* C27 witness: analyzeCode has returned the code of the caller, which
\* differs from the rewritten code in its whitespace only.
C27_Witness ==
  /\ call.fn = "analyzeCode"
  /\ call.args[2] = "rewrite"
  /\ call.args[1] = "let  a = 1;\n"
  /\ call.args[3].ok
  /\ call.args[3].data = Fenced("js", "let a =\n\t1;")
  /\ call.result.value = "let  a = 1;\n"

\* The title holds no ASCII letter and no ASCII digit.
hasNoAlnum(t) ==
  \A i \in 1..Len(t) :
     SubSeq(t, i, i) \notin
       {SubSeq("abcdefghijklmnopqrstuvwxyzABCDEFGHIJKLMNOPQRSTUVWXYZ0123456789", k, k) :
          k \in 1..62}

\* C28: a title without letters and digits is never accepted after
\* another issue, and an output whose first issue has such a title holds
\* that issue alone.
C28_EmptyNormalFormShadowsAll ==
  Done =>
    /\ \A k \in 2..Len(issues) : ~hasNoAlnum(issues[k].title)
    /\ (issues # <<>> /\ hasNoAlnum(issues[1].title)) => Len(issues) = 1

\* C28 witness: a run has returned one issue, its title without letters
\* and digits, from an input with three more statements that pass the
\* two filters.
C28_Witness ==
  /\ Done
  /\ Len(issues) = 1
  /\ hasNoAlnum(issues[1].title)
  /\ Len(evaluated) = 4
  /\ \A p \in 2..4 : ~skippedEarly(evaluated[p])
                       /\ ~policyOf(evaluated[p], partsOf(evaluated[p]))

\* A run has rejected a statement with such a title after accepting
\* another.
C28_WitnessLater ==
  /\ Done
  /\ Len(issues) = 2
  /\ Len(evaluated) = 3
  /\ hasNoAlnum(partsOf(evaluated[2]).title)

\* Firebase holds no user, no handler is suspended and no listener call
\* is waiting.
sessionOver ==
  /\ auth.currentUser = Null
  /\ auth.pending = {}
  /\ auth.notify = <<>>

\* C29: after every step the token of the context and the entry of the
\* session storage are the same token or both absent; a signOut that
\* completes and a listener call with no user leave both absent; and both
\* are absent whenever the session is over.
C29_TokenAndStorageAgree ==
  [][/\ auth'.githubToken = auth'.storage
     /\ (SignOutResolves \/ (AuthStateChanged /\ Head(auth.notify) = Null))
          => (auth'.githubToken = Null /\ auth'.storage = Null)
     /\ sessionOver' => auth'.githubToken = Null]_vars

\* C29 witness: signOut has completed and the listener has reported the
\* end of a GitHub session: the token is gone from the context and from
\* the storage.
C29_Witness ==
  /\ auth.last = Handled("signOut", Null, FALSE)
  /\ sessionOver
  /\ auth.user = Null
  /\ auth.githubToken = Null
  /\ auth.storage = Null

\* signInWithGithub has completed: the context and the storage hold the
\* token of the credential.
C29_WitnessSignedIn ==
  /\ auth.last = Handled("signInWithGithub", "bob", FALSE)
  /\ auth.user = "bob"
  /\ auth.githubToken = "gho_2"
  /\ auth.storage = "gho_2"

\* C30: a call of runCode is fulfilled, never rejected; the result has
\* isError true exactly when its exitCode is not 0; and for a language
\* that LANGUAGE_MAP does not list the result is the error result and no
\* request has been made.
C30_RunCodeNeverRejects ==
  call.fn \in {"runCode", "runCodeOverApis"} =>
    LET language == call.args[1]
        outcome == call.result
    IN  /\ outcome.settled = "fulfilled"
        /\ outcome.value.isError <=> (outcome.value.exitCode # 0)
        /\ language \notin LANGUAGE_MAP
             => /\ outcome.requests = <<>>
                /\ outcome.value = unsupportedLanguage(language)

=============================================================================
